---- MODULE Spec2Model ----
(***************************************************************************)
(* Golden Thread Framework: the registry accessor's chain validation, the  *)
(* consistency, coverage and orphan validators and the Notion client,      *)
(* modelled from                                                           *)
(*   src/src/golden_thread/notion/registry.py                              *)
(*   src/src/golden_thread/notion/client.py                                *)
(*   src/src/golden_thread/validators/consistency.py                       *)
(*   src/src/golden_thread/validators/coverage.py                          *)
(*   src/src/golden_thread/validators/orphans.py                           *)
(*   src/src/golden_thread/manifest.py                                     *)
(* Python strings that the code splits, matches or lower-cases are         *)
(* sequences of one-character strings; names the code only compares are    *)
(* TLA+ strings.                                                           *)
(***************************************************************************)
EXTENDS Integers, Sequences, FiniteSets, TLC

VARIABLES
    registry,    \* remote registry content: id -> outcome of the client's queries
    feat_id,     \* argument of validate_traceability_chain
    pc,          \* position inside validate_traceability_chain
    errors,      \* its local list errors
    warnings,    \* its local list warnings
    req_ids,     \* the requirement links the loops of lines 149-150 go through
    ri,          \* index in req_ids of the requirement being walked
    v_ids,       \* the verification links the loop of line 161 goes through
    vi,          \* index in v_ids of the verification being walked
    result,      \* what validate_traceability_chain returned or raised
    lookups,     \* ids passed to get_entry by the running chain validation
    caller,      \* who runs the chain validation: "direct" or "consistency"
    manifest,    \* the Manifest given to ConsistencyValidator
    cpc,         \* position inside ConsistencyValidator.validate
    all_ids,     \* the groups of get_all_referenced_ids still to check
    cerrors,     \* ConsistencyValidator.validate's local list errors
    cwarnings,   \* its local list warnings
    fi,          \* index of the feature mapping being validated
    queried,     \* ids passed to get_entry by the id pass, in call order
    chained,     \* ids passed to validate_traceability_chain, in call order
    cresult,     \* what ConsistencyValidator.validate returned or raised
    parsed_symbols,   \* the CodeSymbol list given to the coverage and orphan validators
    vpc,              \* position inside CoverageValidator.validate
    cov_errors,       \* its local list errors
    orphan_symbols,   \* its local list orphan_symbols
    invalid_mappings, \* its local list invalid_mappings
    mapped_symbols,   \* its local set mapped_symbols
    mi,               \* index of the manifest mapping the loop of line 51 is at
    si,               \* index of the parsed symbol the loop of line 68 is at
    cov_result,       \* the CoverageResult returned
    opc,              \* position inside OrphanValidator.detect_orphans
    orphan_code,      \* its local list orphan_code
    orphan_manifest,  \* its local list orphan_manifest
    suggestions,      \* its local list suggestions
    osi,              \* index of the parsed symbol the loop of line 51 is at
    omi,              \* index of the manifest mapping the loop of line 73 is at
    orph_result,      \* the OrphanResult returned
    close_matches,    \* manifest path -> whether difflib finds a parsed path close to it
    history,          \* the results the validators returned so far, in order
    config,             \* the NotionConfig fields the client keeps: cache_enabled, cache_ttl
    now,                \* the wall clock, in intervals of 1/rate_limit seconds
    last_request_time,  \* NotionClient.last_request_time
    cache,              \* the files of the cache directory: cache key -> file or none
    kpc,                \* position inside the running client call
    call,               \* the running client call: its arguments and locals
    requests,           \* the HTTP requests sent so far, in order
    calls,              \* the client calls finished so far, in order
    returned,           \* what the call finished last returned or raised
    fmt_id,             \* argument of a validate_id_format call made on its own
    fpc,                \* position of that call
    id_valid,           \* what it returned
    runs                \* the runs that share one cache directory: run -> its position
                        \* in _get_cached, _set_cached or clear_cache and its locals

chainVars == <<feat_id, pc, errors, warnings, req_ids, ri, v_ids, vi, result, lookups>>
consVars == <<manifest, cpc, all_ids, cerrors, cwarnings, fi, queried, chained, cresult>>
covVars ==
    <<vpc, cov_errors, orphan_symbols, invalid_mappings, mapped_symbols, mi, si, cov_result>>
orphVars == <<opc, orphan_code, orphan_manifest, suggestions, osi, omi, orph_result>>
valVars == <<parsed_symbols, close_matches, covVars, orphVars>>
clientVars ==
    <<config, now, last_request_time, cache, kpc, call, requests, calls, returned>>
validatorVars == <<registry, caller, chainVars, consVars, valVars, history>>
\* validate_id_format called on its own
formatVars == <<fmt_id, fpc, id_valid>>
restVars == <<formatVars, runs>>
vars == <<validatorVars, clientVars, restVars>>

(***************************************************************************)
(* Bounds of the model.                                                    *)
(***************************************************************************)
MaxReqLinks == 2      \* requirement links carried by one Feature page
MaxVLinks == 2        \* verification links carried by one Requirement page
MaxFeatures == 2      \* feature mappings declared by one manifest
MaxSymbols == 2       \* code symbols in one parsed list
MaxMappings == 2      \* symbol mappings declared by one manifest

(***************************************************************************)
(* Strings as character sequences.                                         *)
(***************************************************************************)
Upper == {"A","B","C","D","E","F","G","H","I","J","K","L","M",
          "N","O","P","Q","R","S","T","U","V","W","X","Y","Z"}
Digit == {"0","1","2","3","4","5","6","7","8","9"}
\* the characters \d matches in a str pattern: every Unicode decimal digit, of
\* which the model has the ASCII ones and ARABIC-INDIC DIGIT THREE
ArabicThree == "U+0663"
UnicodeDigit == Digit \cup {ArabicThree}

LowerChar(c) ==
    CASE c = "A" -> "a" [] c = "B" -> "b" [] c = "C" -> "c" [] c = "D" -> "d"
      [] c = "E" -> "e" [] c = "F" -> "f" [] c = "G" -> "g" [] c = "H" -> "h"
      [] c = "I" -> "i" [] c = "J" -> "j" [] c = "K" -> "k" [] c = "L" -> "l"
      [] c = "M" -> "m" [] c = "N" -> "n" [] c = "O" -> "o" [] c = "P" -> "p"
      [] c = "Q" -> "q" [] c = "R" -> "r" [] c = "S" -> "s" [] c = "T" -> "t"
      [] c = "U" -> "u" [] c = "V" -> "v" [] c = "W" -> "w" [] c = "X" -> "x"
      [] c = "Y" -> "y" [] c = "Z" -> "z" [] OTHER -> c

\* str.lower()
Lower(s) == [i \in 1..Len(s) |-> LowerChar(s[i])]

\* position of the first occurrence of character c in s, 0 when there is none
FirstIndex(s, c) ==
    IF \E i \in 1..Len(s) : s[i] = c
    THEN CHOOSE i \in 1..Len(s) : s[i] = c /\ \A j \in 1..(i - 1) : s[j] # c
    ELSE 0

RECURSIVE Split(_, _)
\* str.split(c)
Split(s, c) ==
    LET k == FirstIndex(s, c)
    IN  IF k = 0 THEN <<s>>
        ELSE <<SubSeq(s, 1, k - 1)>> \o Split(SubSeq(s, k + 1, Len(s)), c)

\* the identifiers of the model
FEAT1 == <<"F","E","A","T","-","A","-","0","0","1">>
FEAT2 == <<"F","E","A","T","-","B","-","0","0","2">>
FR1 == <<"F","R","-","A","-","0","0","1">>
NFR1 == <<"N","F","R","-","A","-","0","0","1">>
TSR1 == <<"T","S","R","-","A","-","0","0","1">>
TCR1 == <<"T","C","R","-","A","-","0","0","1">>
V1 == <<"V","-","A","-","0","0","1">>
V2 == <<"V","-","A","-","0","0","2">>
BR1 == <<"B","R","-","A","-","0","0","1">>
UR1 == <<"U","R","-","A","-","0","0","1">>
CF1 == <<"C","F","-","A","-","0","0","1">>
TC1 == <<"T","C","-","A","-","0","0","1">>
EA1 == <<"E","A","-","A","-","0","0","1">>
\* a remote page id, as a relation property delivers it
PAGE1 == <<"0","a","1","b","-","2","c">>
NODASH == <<"I","N","V","A","L","I","D">>
LOWER1 == <<"B","R","-","a","-","0","0","1">>
IF1 == <<"I","F","-","A","-","0","0","1">>

S_Verified == <<"V","e","r","i","f","i","e","d">>
S_verified == <<"v","e","r","i","f","i","e","d">>
S_Draft == <<"D","r","a","f","t">>

T_BR == <<"B","R">>
T_UR == <<"U","R">>
T_FEAT == <<"F","E","A","T">>
T_CF == <<"C","F">>
T_FR == <<"F","R">>
T_NFR == <<"N","F","R">>
T_TSR == <<"T","S","R">>
T_TCR == <<"T","C","R">>
T_V == <<"V">>
T_TC == <<"T","C">>
T_EA == <<"E","A">>
T_IF == <<"I","F">>
T_EVT == <<"E","V","T">>
T_GQL == <<"G","Q","L">>
T_RPC == <<"R","P","C">>

\* REGISTRY_TYPES
REGISTRY_TYPES ==
    {T_BR, T_UR, T_FEAT, T_CF, T_FR, T_NFR, T_TSR, T_TCR, T_V, T_TC, T_EA,
     T_IF, T_EVT, T_GQL, T_RPC}

\* the keys of ID_PATTERNS; the pattern of type t is ^t-[A-Z]+-\d{3}$
ID_PATTERNS == REGISTRY_TYPES

\* the whole of s is t-[A-Z]+-\d{3}
MatchesWhole(t, s) ==
    LET n == Len(s)
        p == Len(t)
    IN  /\ n >= p + 6
        /\ SubSeq(s, 1, p) = t
        /\ s[p + 1] = "-"
        /\ \A i \in (p + 2)..(n - 4) : s[i] \in Upper
        /\ s[n - 3] = "-"
        /\ \A i \in (n - 2)..n : s[i] \in UnicodeDigit

\* re.match(ID_PATTERNS[t], s): $ matches at the end of s and also just
\* before a newline that ends s
MatchesPattern(t, s) ==
    \/ MatchesWhole(t, s)
    \/ /\ s # <<>>
       /\ s[Len(s)] = "\n"
       /\ MatchesWhole(t, SubSeq(s, 1, Len(s) - 1))

\* the registry's database_ids: every registry type has a database configured
DatabaseTypes == REGISTRY_TYPES

(***************************************************************************)
(* NotionRegistry: entries and relation extraction.                        *)
(***************************************************************************)
\* the value of a missing dictionary key, of an empty list and of ""
Empty == <<>>

Get(d, k) == IF k \in DOMAIN d THEN d[k] ELSE Empty

RELATION_PROPERTIES ==
    (T_FEAT :> <<"BR", "UR", "FR", "NFR", "TSR", "TCR", "CF">>)
    @@ (T_FR :> <<"V", "FEAT">>)
    @@ (T_NFR :> <<"V", "FEAT">>)
    @@ (T_TSR :> <<"V", "FEAT">>)
    @@ (T_TCR :> <<"V", "FEAT">>)
    @@ (T_V :> <<"TC", "FR", "NFR", "TSR", "TCR">>)
    @@ (T_TC :> <<"EA", "V">>)

\* _extract_id_type: None is Empty
ExtractIdType(id_str) ==
    LET parts == Split(id_str, "-")
    IN  IF Len(parts) < 2 THEN Empty ELSE parts[1]

\* validate_id_format
ValidateIdFormat(id_str) ==
    LET id_type == ExtractIdType(id_str)
    IN  IF id_type = Empty THEN FALSE
        ELSE IF id_type \notin ID_PATTERNS THEN FALSE
        ELSE MatchesPattern(id_type, id_str)

\* A page's properties are a set of <<name, property object>>; a name is
\* <<stem, suffix>> (f"{rel_type}-IDs" is <<rel_type, "-IDs">>) and a property
\* object is a record with the one field of its Notion type.
HasProp(props, name) == \E p \in props : p[1] = name

Prop(props, name) == (CHOOSE p \in props : p[1] = name)[2]

\* _extract_property(props.get(name), prop_type), and
\* _extract_property(props[name], prop_type) where name is known to be present
ExtractProperty(props, name, prop_type) ==
    IF ~HasProp(props, name) THEN Empty
    ELSE LET prop == Prop(props, name)
         IN  IF prop_type \in DOMAIN prop THEN prop[prop_type] ELSE Empty

\* the first non-empty value among the candidates, "" when there is none
FirstNonEmpty(values) ==
    IF \E i \in 1..Len(values) : values[i] # Empty
    THEN values[CHOOSE i \in 1..Len(values) :
                    values[i] # Empty /\ \A j \in 1..(i - 1) : values[j] = Empty]
    ELSE Empty

PropNameVariants(rel_type) == <<<<rel_type, "-IDs">>, <<rel_type, " IDs">>, <<rel_type, "">>>>

\* the inner loop of _extract_related_ids for one relation type
RelatedOf(props, rel_type) ==
    FirstNonEmpty([k \in 1..3 |->
        ExtractProperty(props, PropNameVariants(rel_type)[k], "relation")])

\* _extract_related_ids
ExtractRelatedIds(props, id_type) ==
    LET relation_types == Get(RELATION_PROPERTIES, id_type)
        found == [i \in 1..Len(relation_types) |-> RelatedOf(props, relation_types[i])]
        kept == {i \in 1..Len(relation_types) : found[i] # Empty}
    IN  [rel \in {relation_types[i] : i \in kept} |->
            found[CHOOSE i \in kept : relation_types[i] = rel]]

\* _parse_entry
ParseEntry(page, id_type) ==
    LET props == page.properties
    IN  [id |-> FirstNonEmpty(<<ExtractProperty(props, <<"ID", "">>, "title"),
                               ExtractProperty(props, <<"Name", "">>, "title")>>),
         title |-> FirstNonEmpty(<<ExtractProperty(props, <<"Title", "">>, "rich_text"),
                                  ExtractProperty(props, <<"Description", "">>, "rich_text"),
                                  ExtractProperty(props, <<"Name", "">>, "rich_text")>>),
         status |-> FirstNonEmpty(<<ExtractProperty(props, <<"Status", "">>, "select"),
                                   ExtractProperty(props, <<"State", "">>, "select")>>),
         properties |-> props,
         related_ids |-> ExtractRelatedIds(props, id_type)]

\* the value of a local that holds no entry
NoEntry ==
    [id |-> Empty, title |-> Empty, status |-> Empty, properties |-> {},
     related_ids |-> Empty]

(***************************************************************************)
(* The remote registry.  registry[id] says how the remote answers the      *)
(* queries for id (mode) and describes the page it holds (page); the page  *)
(* itself, with its Notion properties, is built by PageOf.                 *)
(***************************************************************************)
Rel(ids) == [relation |-> ids]

ReqKinds == <<"FR", "NFR", "TSR", "TCR">>

\* the requirement a Feature page links under each kind
ReqIdOfKind == [FR |-> FR1, NFR |-> NFR1, TSR |-> TSR1, TCR |-> TCR1]

\* the first n verification ids, alternating V1, V2
VLinks(n) == [i \in 1..n |-> IF i % 2 = 1 THEN V1 ELSE V2]

\* The pages of the model use all three property-name variants and, for the
\* BR relation, an empty first variant followed by a filled second one.
FeatureProps(d) ==
    {<<<<"BR", "-IDs">>, Rel(Empty)>>}
    \cup (IF d.br THEN {<<<<"BR", " IDs">>, Rel(<<BR1>>)>>} ELSE {})
    \cup (IF d.ur THEN {<<<<"UR", " IDs">>, Rel(<<UR1>>)>>} ELSE {})
    \cup (IF d.cf THEN {<<<<"CF", "">>, Rel(<<CF1>>)>>} ELSE {})
    \cup {<<<<k, "-IDs">>, Rel(<<ReqIdOfKind[k]>>)>> : k \in d.kinds}

RequirementProps(d) ==
    IF d.n > 0 THEN {<<<<"V", "-IDs">>, Rel(VLinks(d.n))>>} ELSE {}

VerificationProps(d) ==
    (IF d.status = Empty THEN {}
     ELSE IF d.status = S_Draft THEN {<<<<"State", "">>, [select |-> d.status]>>}
     ELSE {<<<<"Status", "">>, [select |-> d.status]>>})
    \cup (IF d.tc THEN {<<<<"TC", " IDs">>, Rel(<<TC1>>)>>} ELSE {})
    \cup (IF d.ea THEN {<<<<"EA", "-IDs">>, Rel(<<EA1>>)>>} ELSE {})

\* the Notion page of id, its identifier held by the title property title_prop
PageOf(id, d, title_prop) ==
    [properties |->
        {<<<<title_prop, "">>, [title |-> id]>>}
        \cup (IF d.shape = "feature" THEN FeatureProps(d)
              ELSE IF d.shape = "requirement" THEN RequirementProps(d)
              ELSE IF d.shape = "verification" THEN VerificationProps(d)
              ELSE {})]

NoPage == [shape |-> "none"]
RemoteAbsent == [mode |-> "absent", page |-> NoPage]
RemoteDown == [mode |-> "down", page |-> NoPage]
RemoteFound(d) == [mode |-> "found", page |-> d]
\* a database without an "ID" property: the first query fails, the fallback finds
RemoteFoundByName(d) == [mode |-> "byname", page |-> d]

Ok(pages) == [kind |-> "ok", pages |-> pages]
Err == [kind |-> "error", pages |-> Empty]

\* client.search_database for the query of id_str, by the filter on the "ID"
\* property or by the fallback filter on "Name": a result list or a NotionError
SearchDatabase(id_str, filter_property) ==
    LET r == registry[id_str]
    IN  IF filter_property = "ID"
        THEN IF r.mode = "found" THEN Ok(<<PageOf(id_str, r.page, "ID")>>)
             ELSE IF r.mode = "absent" THEN Ok(Empty)
             ELSE Err
        ELSE IF r.mode = "byname" THEN Ok(<<PageOf(id_str, r.page, "Name")>>)
             ELSE Err

\* str(e) of the NotionError raised by the client
API_ERROR == <<"Notion API error">>

\* the outcomes of get_entry: a NotionError with its message, None, an entry
Raise(msg) == [kind |-> "raise", entry |-> NoEntry, error |-> msg]
None == [kind |-> "none", entry |-> NoEntry, error |-> Empty]
Entry(e) == [kind |-> "entry", entry |-> e, error |-> Empty]

\* get_entry without the "if not results" guard of line 82: results[0] raises
GetEntry_NoEmptyGuard(id_str) ==
    LET id_type == ExtractIdType(id_str)
    IN  IF id_type = Empty THEN Raise(<<"Invalid ID format", ":", " ">> \o id_str)
        ELSE IF id_type \notin DatabaseTypes
             THEN Raise(<<"Unknown ID type", ":", " ">> \o id_type)
        ELSE LET first == SearchDatabase(id_str, "ID")
                 results == IF first.kind = "error" THEN SearchDatabase(id_str, "Name")
                            ELSE first
             IN  IF results.kind = "error" \/ results.pages = Empty
                 THEN Raise(API_ERROR)
                 ELSE Entry(ParseEntry(results.pages[1], id_type))

\* get_entry
GetEntry(id_str) ==
    LET id_type == ExtractIdType(id_str)
    IN  IF id_type = Empty THEN Raise(<<"Invalid ID format", ":", " ">> \o id_str)
        ELSE IF id_type \notin DatabaseTypes
             THEN Raise(<<"Unknown ID type", ":", " ">> \o id_type)
        ELSE LET first == SearchDatabase(id_str, "ID")
                 results == IF first.kind = "error" THEN SearchDatabase(id_str, "Name")
                            ELSE first
             IN  IF results.kind = "error" THEN Raise(API_ERROR)
                 ELSE IF results.pages = Empty THEN None
                 ELSE Entry(ParseEntry(results.pages[1], id_type))

(***************************************************************************)
(* validate_traceability_chain, one step per registry lookup.              *)
(***************************************************************************)
\* f"{code}: {id}{tail}"
Msg(code, id, tail) == <<code, ":", " ">> \o id \o <<tail>>

\* what a call gave back: a result, or an exception with message e
Returned(errs, warns) ==
    [kind |-> "returned", valid |-> (Len(errs) = 0), errors |-> errs, warnings |-> warns,
     error |-> Empty]

Raised(e) ==
    [kind |-> "raised", valid |-> FALSE, errors |-> Empty, warnings |-> Empty, error |-> e]

\* no call has finished
NoResult ==
    [kind |-> "none", valid |-> FALSE, errors |-> Empty, warnings |-> Empty,
     error |-> Empty]

\* the checks of lines 129-142 with has_requirements looking at "FR" alone
FeatureErrors_FROnly(f, id) ==
    (IF Get(f.related_ids, "BR") = Empty
        THEN <<Msg("MISSING_BR", id, " has no Business Requirement")>> ELSE <<>>)
    \o (IF Get(f.related_ids, "UR") = Empty
        THEN <<Msg("MISSING_UR", id, " has no User Requirement")>> ELSE <<>>)
    \o (IF Get(f.related_ids, "FR") = Empty
        THEN <<Msg("MISSING_FR", id, " has no Functional Requirements")>> ELSE <<>>)

\* lines 129-142: the BR, UR and requirement-link checks of the feature
FeatureErrors(f, id) ==
    (IF Get(f.related_ids, "BR") = Empty
        THEN <<Msg("MISSING_BR", id, " has no Business Requirement")>> ELSE <<>>)
    \o (IF Get(f.related_ids, "UR") = Empty
        THEN <<Msg("MISSING_UR", id, " has no User Requirement")>> ELSE <<>>)
    \o (IF ~\E i \in 1..Len(ReqKinds) : Get(f.related_ids, ReqKinds[i]) # Empty
        THEN <<Msg("MISSING_FR", id, " has no Functional Requirements")>> ELSE <<>>)

\* lines 144-146: the call-flow check
FeatureWarnings(f, id) ==
    IF Get(f.related_ids, "CF") = Empty
    THEN <<Msg("MISSING_CF", id, " has no Call Flow")>> ELSE <<>>

\* the loop of line 149 going through "FR" alone
ReqLinks_FROnly(f) == Get(f.related_ids, "FR")

\* the requirement ids in the order of the loops of lines 149-150
ReqLinks(f) ==
    Get(f.related_ids, "FR") \o Get(f.related_ids, "NFR")
    \o Get(f.related_ids, "TSR") \o Get(f.related_ids, "TCR")

\* the checks of lines 167-175 comparing the status without lower()
VerificationErrors_CaseSensitive(ver, v_id) ==
    (IF Get(ver.related_ids, "TC") = Empty
        THEN <<Msg("MISSING_TC", v_id, " has no Test Case")>> ELSE <<>>)
    \o (IF ver.status # Empty /\ ver.status = S_verified
           /\ Get(ver.related_ids, "EA") = Empty
        THEN <<Msg("MISSING_EA", v_id, " is Verified but has no Evidence Artifact")>>
        ELSE <<>>)

\* lines 167-175: the checks on a resolved verification
VerificationErrors(ver, v_id) ==
    (IF Get(ver.related_ids, "TC") = Empty
        THEN <<Msg("MISSING_TC", v_id, " has no Test Case")>> ELSE <<>>)
    \o (IF ver.status # Empty /\ Lower(ver.status) = S_verified
           /\ Get(ver.related_ids, "EA") = Empty
        THEN <<Msg("MISSING_EA", v_id, " is Verified but has no Evidence Artifact")>>
        ELSE <<>>)

\* lines 120-146: resolve the feature and check its own links
ChainFeature ==
    /\ pc = "feature"
    /\ LET got == GetEntry(feat_id)
       IN  /\ lookups' = Append(lookups, feat_id)
           /\ IF got.kind = "raise"
              THEN /\ result' = Raised(got.error)
                   /\ pc' = "done"
                   /\ UNCHANGED <<errors, warnings, req_ids, ri>>
              ELSE IF got.kind = "none"
              THEN /\ errors' = <<Msg("INVALID_ID", feat_id, " not found in Feature Registry")>>
                   /\ result' = Returned(errors', warnings)
                   /\ pc' = "done"
                   /\ UNCHANGED <<warnings, req_ids, ri>>
              ELSE /\ errors' = FeatureErrors(got.entry, feat_id)
                   /\ warnings' = FeatureWarnings(got.entry, feat_id)
                   /\ req_ids' = ReqLinks(got.entry)
                   /\ ri' = 1
                   /\ pc' = "requirement"
                   /\ UNCHANGED result
    /\ UNCHANGED <<clientVars, restVars, history, valVars, registry, caller, feat_id, v_ids, vi, consVars>>

\* lines 149-158: resolve the next requirement link
ChainRequirement ==
    /\ pc = "requirement"
    /\ ri <= Len(req_ids)
    /\ LET req_id == req_ids[ri]
           got == GetEntry(req_id)
       IN  /\ lookups' = Append(lookups, req_id)
           /\ IF got.kind = "raise"
              THEN /\ result' = Raised(got.error)
                   /\ pc' = "done"
                   /\ UNCHANGED <<errors, ri, v_ids, vi>>
              ELSE IF got.kind = "none"
              THEN /\ errors' = Append(errors, Msg("INVALID_ID", req_id, " not found"))
                   /\ ri' = ri + 1
                   /\ UNCHANGED <<result, pc, v_ids, vi>>
              ELSE IF Get(got.entry.related_ids, "V") = Empty
              THEN /\ errors' = Append(errors, Msg("MISSING_V", req_id, " has no Verification"))
                   /\ ri' = ri + 1
                   /\ UNCHANGED <<result, pc, v_ids, vi>>
              ELSE /\ v_ids' = Get(got.entry.related_ids, "V")
                   /\ vi' = 1
                   /\ pc' = "verification"
                   /\ UNCHANGED <<result, errors, ri>>
    /\ UNCHANGED <<clientVars, restVars, history, valVars, registry, caller, feat_id, warnings, req_ids, consVars>>

\* lines 161-175: resolve the next verification link of the current requirement;
\* after the last one the loop of line 150 goes on with the next requirement
ChainVerification ==
    /\ pc = "verification"
    /\ vi <= Len(v_ids)
    /\ LET v_id == v_ids[vi]
           got == GetEntry(v_id)
       IN  /\ lookups' = Append(lookups, v_id)
           /\ IF got.kind = "raise"
              THEN /\ result' = Raised(got.error)
                   /\ pc' = "done"
                   /\ UNCHANGED <<errors, ri, vi>>
              ELSE /\ IF got.kind = "none"
                      THEN errors' = Append(errors, Msg("INVALID_ID", v_id, " not found"))
                      ELSE errors' = errors \o VerificationErrors(got.entry, v_id)
                   /\ IF vi < Len(v_ids)
                      THEN /\ vi' = vi + 1
                           /\ UNCHANGED <<pc, ri>>
                      ELSE /\ pc' = "requirement"
                           /\ ri' = ri + 1
                           /\ UNCHANGED vi
                   /\ UNCHANGED result
    /\ UNCHANGED <<clientVars, restVars, history, valVars, registry, caller, feat_id, warnings, req_ids, v_ids, consVars>>

\* line 177: every requirement link walked
ChainReturn ==
    /\ pc = "requirement"
    /\ ri > Len(req_ids)
    /\ result' = Returned(errors, warnings)
    /\ pc' = "done"
    /\ UNCHANGED <<clientVars, restVars, history, valVars, registry, caller, feat_id, errors, warnings, req_ids, ri, v_ids, vi,
                   lookups, consVars>>

ChainNext == ChainFeature \/ ChainRequirement \/ ChainVerification \/ ChainReturn

(***************************************************************************)
(* The registries a direct chain validation is checked on.                 *)
(***************************************************************************)
RequirementIds == {FR1, NFR1, TSR1, TCR1}
VerificationIds == {V1, V2}
RegistryIds == {FEAT1, FEAT2} \cup RequirementIds \cup VerificationIds

KindSets == {ks \in SUBSET {"FR", "NFR", "TSR", "TCR"} : Cardinality(ks) <= MaxReqLinks}

FeatureDesc(br, ur, cf, ks) ==
    [shape |-> "feature", br |-> br, ur |-> ur, cf |-> cf, kinds |-> ks]
RequirementDesc(n) == [shape |-> "requirement", n |-> n]
VerificationDesc(st, tc, ea) == [shape |-> "verification", status |-> st, tc |-> tc, ea |-> ea]

FeatureRemotes ==
    {RemoteDown, RemoteAbsent}
    \cup {RemoteFound(FeatureDesc(br, ur, cf, ks)) :
            br \in BOOLEAN, ur \in BOOLEAN, cf \in BOOLEAN, ks \in KindSets}
    \cup {RemoteFoundByName(FeatureDesc(br, ur, cf, {})) :
            br \in BOOLEAN, ur \in BOOLEAN, cf \in BOOLEAN}

\* FR1 carries up to MaxVLinks verification links, the other requirements
\* at most one
RequirementRemotes(id) ==
    {RemoteDown, RemoteAbsent}
    \cup {RemoteFound(RequirementDesc(n)) :
            n \in (IF id = FR1 THEN 0..MaxVLinks ELSE {0, 1})}

\* V1 takes every combination of a status with the TestCase and Evidence links
\* (no status at all with a TestCase link only); V2, reached only as a second
\* link, the cases that separate the outcomes of a lookup
VerificationRemotes(id) ==
    {RemoteDown, RemoteAbsent}
    \cup (IF id = V1
          THEN {RemoteFound(VerificationDesc(st, tc, ea)) :
                    st \in {S_Verified, S_Draft}, tc \in BOOLEAN, ea \in BOOLEAN}
               \cup {RemoteFound(VerificationDesc(Empty, TRUE, FALSE))}
          ELSE {RemoteFound(VerificationDesc(S_Verified, TRUE, TRUE)),
                RemoteFound(VerificationDesc(S_Draft, TRUE, FALSE))})

\* the requirement ids a feature's remote page links, the verification ids the
\* requirements' pages link
LinkedRequirements(fr) ==
    IF fr.page.shape = "feature" THEN {ReqIdOfKind[k] : k \in fr.page.kinds} ELSE {}

LinkedVerifications(rr) ==
    UNION {IF rr[r].page.shape = "requirement"
           THEN {VLinks(rr[r].page.n)[i] : i \in 1..rr[r].page.n} ELSE {} : r \in DOMAIN rr}

\* the functions giving every id of ids one of its remotes
RemotesOf(ids, Remotes(_)) ==
    {f \in [ids -> UNION {Remotes(x) : x \in ids}] : \A x \in ids : f[x] \in Remotes(x)}

\* no client call is running
NoCall ==
    [n |-> 0, op |-> "none", target |-> Empty, filter_params |-> "None",
     cache_key |-> Empty, results |-> Empty, start_cursor |-> "none", sent |-> 0,
     started |-> 0, pages |-> Empty]

\* no client call has finished
NoReturn == [kind |-> "none", value |-> Empty]

\* no validate_id_format call is made on its own
FormatIdle ==
    /\ fmt_id = Empty
    /\ fpc = "off"
    /\ id_valid = FALSE

RestIdle == FormatIdle /\ runs = Empty

\* no NotionClient is in use
ClientIdle ==
    /\ config = [cache_enabled |-> FALSE, cache_ttl |-> 0]
    /\ now = 0
    /\ last_request_time = 0
    /\ cache = [k \in {} |-> Empty]
    /\ kpc = "off"
    /\ call = NoCall
    /\ requests = Empty
    /\ calls = Empty
    /\ returned = NoReturn

\* difflib was asked about no path
NoMatches == [p \in {} |-> FALSE]

\* no CoverageResult, no OrphanResult yet
NoCoverage ==
    [kind |-> "none", total_symbols |-> 0, mapped_symbols |-> 0, orphan_symbols |-> Empty,
     invalid_mappings |-> Empty, coverage_percentage |-> [num |-> 0, den |-> 1],
     errors |-> Empty]

NoOrphans ==
    [kind |-> "none", orphan_code |-> Empty, orphan_manifest |-> Empty,
     suggestions |-> Empty]

ConsIdle ==
    /\ manifest = Empty
    /\ cpc = "off"
    /\ all_ids = Empty
    /\ cerrors = Empty
    /\ cwarnings = Empty
    /\ fi = 0
    /\ queried = Empty
    /\ chained = Empty
    /\ cresult = NoResult

\* no coverage validation is under way
CoverageIdle ==
    /\ vpc = "off"
    /\ cov_errors = Empty
    /\ orphan_symbols = Empty
    /\ invalid_mappings = Empty
    /\ mapped_symbols = {}
    /\ mi = 0
    /\ si = 0
    /\ cov_result = NoCoverage

\* no orphan detection is under way
OrphansIdle ==
    /\ opc = "off"
    /\ orphan_code = Empty
    /\ orphan_manifest = Empty
    /\ suggestions = Empty
    /\ osi = 0
    /\ omi = 0
    /\ orph_result = NoOrphans

ChainIdle ==
    /\ errors = Empty
    /\ warnings = Empty
    /\ req_ids = Empty
    /\ ri = 0
    /\ v_ids = Empty
    /\ vi = 0
    /\ result = NoResult
    /\ lookups = Empty

\* A direct call validate_traceability_chain(feat_id).  Only the pages the walk
\* from FEAT1 can reach vary; every other id is absent.
InitChain ==
    /\ ClientIdle
    /\ RestIdle
    /\ feat_id \in {FEAT1, PAGE1, NODASH}
    /\ \E fr \in (IF feat_id = FEAT1 THEN FeatureRemotes ELSE {RemoteAbsent}) :
         \E rr \in RemotesOf(LinkedRequirements(fr), RequirementRemotes) :
           \E vr \in RemotesOf(LinkedVerifications(rr), VerificationRemotes) :
             registry = [id \in RegistryIds |->
                            IF id = FEAT1 THEN fr
                            ELSE IF id \in DOMAIN rr THEN rr[id]
                            ELSE IF id \in DOMAIN vr THEN vr[id]
                            ELSE RemoteAbsent]
    /\ caller = "direct"
    /\ pc = "feature"
    /\ ChainIdle
    /\ ConsIdle
    /\ parsed_symbols = Empty
    /\ close_matches = NoMatches
    /\ history = Empty
    /\ CoverageIdle
    /\ OrphansIdle

SpecChain == InitChain /\ [][ChainNext]_vars

(***************************************************************************)
(* Manifest.get_all_referenced_ids.  The dict ids_by_type is the sequence  *)
(* of its items [id_type, ids] in insertion order.                         *)
(***************************************************************************)
\* id_str.split("-")[0]
TypePrefix(id_str) == Split(id_str, "-")[1]

\* ids_by_type.setdefault(id_type, set()).add(id_str)
SetDefaultAdd(d, id_type, id_str) ==
    IF \E i \in 1..Len(d) : d[i].id_type = id_type
    THEN [i \in 1..Len(d) |->
            IF d[i].id_type = id_type THEN [d[i] EXCEPT !.ids = @ \cup {id_str}]
            ELSE d[i]]
    ELSE Append(d, [id_type |-> id_type, ids |-> {id_str}])

RECURSIVE AddAll(_, _)
\* the additions adds, pairs <<id_type, id_str>>, made to d one after the other
AddAll(d, adds) ==
    IF adds = Empty THEN d
    ELSE AddAll(SetDefaultAdd(d, adds[1][1], adds[1][2]), Tail(adds))

RECURSIVE Flatten(_)
Flatten(ss) == IF ss = Empty THEN Empty ELSE ss[1] \o Flatten(Tail(ss))

\* the additions of a list of ids under the fixed key id_type
Under(id_type, ids) == [j \in 1..Len(ids) |-> <<id_type, ids[j]>>]

\* the additions of a list of ids, each under its own prefix
OwnPrefix(ids) == [j \in 1..Len(ids) |-> <<TypePrefix(ids[j]), ids[j]>>]

\* lines 238-241
SymbolAdds(symbol) == OwnPrefix(symbol.ids)

\* lines 244-255
FeatureAdds(feature) ==
    OwnPrefix(<<feature.id>>)
    \o Under(T_BR, feature.business_requirements)
    \o Under(T_UR, feature.user_requirements)
    \o Under(T_CF, feature.call_flows)

\* lines 258-264
InterfaceAdds(iface) == OwnPrefix(<<iface.id>>) \o OwnPrefix(iface.requirements)

\* lines 267-271
TestAdds(test) == Under(T_TC, test.test_cases) \o Under(T_V, test.verifications)

\* the additions of lines 238-271, in program order
ReferenceAdds(m) ==
    Flatten([i \in 1..Len(m.symbols) |-> SymbolAdds(m.symbols[i])])
    \o Flatten([i \in 1..Len(m.features) |-> FeatureAdds(m.features[i])])
    \o Flatten([i \in 1..Len(m.interfaces) |-> InterfaceAdds(m.interfaces[i])])
    \o Flatten([i \in 1..Len(m.tests) |-> TestAdds(m.tests[i])])

GetAllReferencedIds(m) == AddAll(Empty, ReferenceAdds(m))

(***************************************************************************)
(* ConsistencyValidator.validate.  An entry's code is the token sequence   *)
(* of the code string.                                                     *)
(***************************************************************************)
\* lines 52-56
InvalidFormat(id_str) ==
    [code |-> <<"INVALID_FORMAT">>,
     message |-> <<"Invalid ID format", ":", " ">> \o id_str,
     id |-> id_str]

\* lines 65-70
NotFound(id_str, id_type) ==
    [code |-> <<"INVALID_ID">>,
     message |-> <<"ID not found in Notion", ":", " ">> \o id_str,
     id |-> id_str, id_type |-> id_type]

\* lines 74-78
CheckFailed(id_str, e) ==
    [code |-> <<"INVALID_ID">>,
     message |-> <<"Error checking ID ">> \o id_str \o <<":", " ">> \o e,
     id |-> id_str]

RECURSIVE Strip(_)
\* str.strip()
Strip(s) ==
    IF s = Empty THEN s
    ELSE IF s[1] = " " THEN Strip(Tail(s))
    ELSE IF s[Len(s)] = " " THEN Strip(SubSeq(s, 1, Len(s) - 1))
    ELSE s

\* lines 91-92 and 105-106 taking the fallback for every message
ParseCode_AlwaysFallback(msg, fallback) == <<fallback>>

\* lines 91-92 and 105-106: the code before the first colon, else the fallback
ParseCode(msg, fallback) ==
    LET k == FirstIndex(msg, ":")
    IN  IF k = 0 THEN <<fallback>> ELSE Strip(SubSeq(msg, 1, k - 1))

\* lines 94-100 and 108-114
ChainEntry(msg, fallback, f) ==
    [code |-> ParseCode(msg, fallback), message |-> msg, feature |-> f]

\* lines 116-122
ChainFailed(f, e) ==
    [code |-> <<"VALIDATION_ERROR">>,
     message |-> <<"Failed to validate traceability chain for ">> \o f \o <<":", " ">> \o e,
     feature |-> f]

\* line 44
ConsStart ==
    /\ cpc = "start"
    /\ all_ids' = GetAllReferencedIds(manifest)
    /\ cpc' = IF all_ids' = Empty THEN "features" ELSE "ids"
    /\ fi' = 1
    /\ UNCHANGED <<clientVars, restVars, history, valVars, registry, caller, chainVars, manifest, cerrors, cwarnings, queried,
                   chained, cresult>>

\* lines 47-79: one id of the current group, in the iteration order of its set
ConsCheckId ==
    /\ cpc = "ids"
    /\ \E id_str \in all_ids[1].ids :
         LET id_type == all_ids[1].id_type
             rest == all_ids[1].ids \ {id_str}
         IN  /\ IF ~ValidateIdFormat(id_str)
                THEN /\ cerrors' = Append(cerrors, InvalidFormat(id_str))
                     /\ UNCHANGED queried
                ELSE LET got == GetEntry(id_str)
                     IN  /\ queried' = Append(queried, id_str)
                         /\ cerrors' =
                              IF got.kind = "raise"
                              THEN Append(cerrors, CheckFailed(id_str, got.error))
                              ELSE IF got.kind = "none"
                              THEN Append(cerrors, NotFound(id_str, id_type))
                              ELSE cerrors
             /\ all_ids' = IF rest = {} THEN Tail(all_ids)
                           ELSE <<[id_type |-> id_type, ids |-> rest]>> \o Tail(all_ids)
             /\ cpc' = IF all_ids' = Empty THEN "features" ELSE "ids"
    /\ UNCHANGED <<clientVars, restVars, history, valVars, registry, caller, chainVars, manifest, cwarnings, fi, chained, cresult>>

\* lines 82-86: the call of validate_traceability_chain for the next feature
ConsCallChain ==
    /\ cpc = "features"
    /\ fi <= Len(manifest.features)
    /\ feat_id' = manifest.features[fi].id
    /\ chained' = Append(chained, feat_id')
    /\ pc' = "feature"
    /\ errors' = Empty
    /\ warnings' = Empty
    /\ req_ids' = Empty
    /\ ri' = 0
    /\ v_ids' = Empty
    /\ vi' = 0
    /\ result' = NoResult
    /\ lookups' = Empty
    /\ cpc' = "chain"
    /\ UNCHANGED <<clientVars, restVars, history, valVars, registry, caller, manifest, all_ids, cerrors, cwarnings, fi, queried,
                   cresult>>

\* lines 86-114 without the handler of line 115: the exception leaves validate
ConsFold_NoExcept ==
    /\ cpc = "chain"
    /\ pc = "done"
    /\ IF result.kind = "raised"
       THEN /\ cresult' = Raised(result.error)
            /\ cpc' = "done"
            /\ UNCHANGED <<cerrors, cwarnings, fi>>
       ELSE /\ cerrors' = cerrors \o [i \in 1..Len(result.errors) |->
                              ChainEntry(result.errors[i], "VALIDATION_ERROR", feat_id)]
            /\ cwarnings' = cwarnings \o [i \in 1..Len(result.warnings) |->
                              ChainEntry(result.warnings[i], "VALIDATION_WARNING", feat_id)]
            /\ fi' = fi + 1
            /\ cpc' = "features"
            /\ UNCHANGED cresult
    /\ pc' = "idle"
    /\ UNCHANGED <<clientVars, restVars, history, valVars, registry, caller, feat_id, errors, warnings, req_ids, ri, v_ids, vi,
                   result, lookups, manifest, all_ids, queried, chained>>

\* lines 86-122: the chain result folded into errors and warnings, an exception
\* of the call turned into one VALIDATION_ERROR entry
ConsFold ==
    /\ cpc = "chain"
    /\ pc = "done"
    /\ IF result.kind = "raised"
       THEN /\ cerrors' = Append(cerrors, ChainFailed(feat_id, result.error))
            /\ UNCHANGED cwarnings
       ELSE /\ cerrors' = cerrors \o [i \in 1..Len(result.errors) |->
                              ChainEntry(result.errors[i], "VALIDATION_ERROR", feat_id)]
            /\ cwarnings' = cwarnings \o [i \in 1..Len(result.warnings) |->
                              ChainEntry(result.warnings[i], "VALIDATION_WARNING", feat_id)]
    /\ fi' = fi + 1
    /\ cpc' = "features"
    /\ pc' = "idle"
    /\ UNCHANGED <<clientVars, restVars, history, valVars, registry, caller, feat_id, errors, warnings, req_ids, ri, v_ids, vi,
                   result, lookups, manifest, all_ids, queried, chained, cresult>>

\* line 124
ConsReturn ==
    /\ cpc = "features"
    /\ fi > Len(manifest.features)
    /\ cresult' = Returned(cerrors, cwarnings)
    /\ cpc' = "done"
    /\ history' = Append(history, [validator |-> "consistency", result |-> cresult'])
    /\ UNCHANGED <<clientVars, restVars>>
    /\ UNCHANGED <<valVars, registry, caller, chainVars, manifest, all_ids, cerrors, cwarnings, fi,
                   queried, chained>>

ConsNext ==
    \/ ConsStart
    \/ ConsCheckId
    \/ ConsCallChain
    \/ ChainFeature
    \/ ChainRequirement
    \/ ChainVerification
    \/ ChainReturn
    \/ ConsFold
    \/ ConsReturn

(***************************************************************************)
(* The manifests and registries ConsistencyValidator.validate is checked   *)
(* on.                                                                     *)
(***************************************************************************)
\* SymbolMapping, FeatureMapping, InterfaceMapping, TestMapping: the fields
\* that carry ids
Symbol(ids) == [ids |-> ids]
Feature(id, brs, urs, cfs) ==
    [id |-> id, business_requirements |-> brs, user_requirements |-> urs,
     call_flows |-> cfs]
Interface(id, reqs) == [id |-> id, requirements |-> reqs]
Test(tcs, vs) == [test_cases |-> tcs, verifications |-> vs]

\* the second mapping lists a functional requirement among its business
\* requirements
FeatureMappings ==
    {Feature(FEAT1, <<BR1>>, <<UR1>>, Empty),
     Feature(FEAT2, <<FR1>>, Empty, <<CF1>>),
     Feature(FEAT1, Empty, Empty, Empty)}

FeatureLists == UNION {[1..n -> FeatureMappings] : n \in 0..MaxFeatures}

SymbolLists ==
    {Empty,
     <<Symbol(<<FR1>>)>>,
     <<Symbol(<<LOWER1, FR1>>), Symbol(<<NODASH, BR1>>)>>}

InterfaceAndTestLists ==
    {[interfaces |-> Empty, tests |-> Empty],
     [interfaces |-> <<Interface(IF1, <<FR1>>)>>, tests |-> <<Test(<<TC1>>, <<V1>>)>>]}

Manifests ==
    {[symbols |-> s, features |-> f, interfaces |-> x.interfaces, tests |-> x.tests] :
        s \in SymbolLists, f \in FeatureLists, x \in InterfaceAndTestLists}

\* a page with a title and no other property
PlainDesc == [shape |-> "plain"]

ConsIds == {FEAT1, FEAT2, FR1, NFR1, V1, BR1, UR1, CF1, TC1, IF1}

ConsFeat1Remotes ==
    {RemoteDown, RemoteAbsent,
     RemoteFound(FeatureDesc(TRUE, TRUE, TRUE, {})),
     RemoteFound(FeatureDesc(FALSE, TRUE, FALSE, {"FR"}))}

ConsFeat2Remotes ==
    {RemoteAbsent, RemoteFound(FeatureDesc(TRUE, TRUE, FALSE, {"NFR"}))}

ConsFr1Remotes == {RemoteDown, RemoteAbsent, RemoteFound(RequirementDesc(0))}

ConsRegistries ==
    {[id \in ConsIds |->
        IF id = FEAT1 THEN f1
        ELSE IF id = FEAT2 THEN f2
        ELSE IF id = FR1 THEN r1
        ELSE IF id = NFR1 THEN RemoteFound(RequirementDesc(1))
        ELSE IF id = V1 THEN RemoteFound(VerificationDesc(S_Draft, TRUE, FALSE))
        ELSE IF id = IF1 THEN RemoteAbsent
        ELSE RemoteFound(PlainDesc)] :
        f1 \in ConsFeat1Remotes, f2 \in ConsFeat2Remotes, r1 \in ConsFr1Remotes}

\* ConsistencyValidator(manifest, registry).validate() is about to run
InitCons ==
    /\ ClientIdle
    /\ RestIdle
    /\ manifest \in Manifests
    /\ registry \in ConsRegistries
    /\ caller = "consistency"
    /\ cpc = "start"
    /\ all_ids = Empty
    /\ cerrors = Empty
    /\ cwarnings = Empty
    /\ fi = 0
    /\ queried = Empty
    /\ chained = Empty
    /\ cresult = NoResult
    /\ feat_id = Empty
    /\ pc = "idle"
    /\ ChainIdle
    /\ parsed_symbols = Empty
    /\ close_matches = NoMatches
    /\ history = Empty
    /\ CoverageIdle
    /\ OrphansIdle

SpecCons == InitCons /\ [][ConsNext]_vars

(***************************************************************************)
(* What the remote registry holds, read off the registry itself, and what  *)
(* a list of messages says.                                                *)
(***************************************************************************)
Range(seq) == {seq[i] : i \in 1..Len(seq)}

Resolves(id) == id \in DOMAIN registry /\ registry[id].mode \in {"found", "byname"}
Absent(id) == id \in DOMAIN registry /\ registry[id].mode = "absent"
Unreachable(id) == id \notin DOMAIN registry \/ registry[id].mode = "down"

\* the number of messages f"{code}: {id}..." in msgs
Count(msgs, code, id) ==
    Cardinality({i \in 1..Len(msgs) :
        /\ msgs[i][1] = code
        /\ Len(msgs[i]) = Len(id) + 4
        /\ SubSeq(msgs[i], 4, Len(id) + 3) = id})

\* how often x occurs in seq
Times(seq, x) == Cardinality({i \in 1..Len(seq) : seq[i] = x})

Codes(msgs) == [i \in 1..Len(msgs) |-> msgs[i][1]]

ChainReturned == pc = "done" /\ result.kind = "returned"

\* the requirement ids the feature's page links, the verification ids a
\* requirement's page links
PageRequirements(f) == {ReqIdOfKind[k] : k \in registry[f].page.kinds}
PageVerifications(r) == Range(VLinks(registry[r].page.n))

IsVerified(status) == Lower(status) = S_verified

\* C1: a resolved Verification gets MISSING_EA exactly when its status is
\* "verified" in any case and its page carries no Evidence-Artifact link, and
\* MISSING_TC exactly when its page carries no TestCase link.
C1_EvidenceExactlyWhenVerifiedWithoutEA ==
    ChainReturned =>
        \A x \in VerificationIds :
            (x \in Range(lookups) /\ Resolves(x)) =>
                /\ (Count(result.errors, "MISSING_EA", x) > 0)
                     <=> (IsVerified(registry[x].page.status) /\ ~registry[x].page.ea)
                /\ (Count(result.errors, "MISSING_TC", x) > 0) <=> ~registry[x].page.tc

\* C2: once the Feature is resolved, whatever the lookups of its requirements
\* and verifications give (found, absent, API failure), a result is returned
\* and it holds every error and warning accumulated over the walk.
C2_EveryFindingReturned ==
    (pc = "done" /\ Resolves(feat_id)) =>
        /\ result.kind = "returned"
        /\ result.errors = errors
        /\ result.warnings = warnings

\* C3: when get_entry finds no Feature entry, the result is invalid, holds
\* exactly the one error INVALID_ID for the feature id and no warning, and no
\* lookup other than the feature's was made.
C3_AbsentFeatureStops ==
    (pc = "done" /\ Absent(feat_id)) =>
        /\ result.kind = "returned"
        /\ ~result.valid
        /\ Len(result.errors) = 1
        /\ Count(result.errors, "INVALID_ID", feat_id) = 1
        /\ result.warnings = Empty
        /\ lookups = <<feat_id>>

C3_Witness == pc = "done" /\ Absent(feat_id) /\ feat_id = FEAT1

\* C4: for a resolved Feature, MISSING_BR is emitted once exactly when the page
\* has no BR link, MISSING_UR once exactly when it has no UR link, MISSING_FR
\* once exactly when it has no FR, NFR, TSR or TCR link.
C4_FeatureLinkChecks ==
    (pc # "feature" /\ Resolves(feat_id)) =>
        LET page == registry[feat_id].page
        IN  /\ Count(errors, "MISSING_BR", feat_id) = (IF page.br THEN 0 ELSE 1)
            /\ Count(errors, "MISSING_UR", feat_id) = (IF page.ur THEN 0 ELSE 1)
            /\ Count(errors, "MISSING_FR", feat_id) = (IF page.kinds = {} THEN 1 ELSE 0)
            /\ ChainReturned => result.errors = errors

C4_Witness ==
    /\ ChainReturned
    /\ Resolves(feat_id)
    /\ registry[feat_id].page.kinds = {"TSR"}
    /\ ~registry[feat_id].page.br
    /\ registry[feat_id].page.ur
    /\ Count(result.errors, "MISSING_BR", feat_id) = 1
    /\ Count(result.errors, "MISSING_FR", feat_id) = 0

\* the chain below feature f is complete: it has BR, UR and requirement links,
\* every requirement resolves and is verified, every verification resolves and
\* is tested, and every Verified verification carries evidence
ChainComplete(f) ==
    /\ Resolves(f)
    /\ registry[f].page.br
    /\ registry[f].page.ur
    /\ registry[f].page.kinds # {}
    /\ \A r \in PageRequirements(f) :
        /\ Resolves(r)
        /\ registry[r].page.n > 0
        /\ \A x \in PageVerifications(r) :
            /\ Resolves(x)
            /\ registry[x].page.tc
            /\ IsVerified(registry[x].page.status) => registry[x].page.ea

\* C5: a Feature missing only its Call-Flow link gets no error, the one
\* warning MISSING_CF, and valid = true.
C5_OnlyCallFlowMissing ==
    (pc = "done" /\ ChainComplete(feat_id) /\ ~registry[feat_id].page.cf) =>
        /\ result.kind = "returned"
        /\ result.errors = Empty
        /\ Codes(result.warnings) = <<"MISSING_CF">>
        /\ result.valid

\* C6: in a returned result, every requirement link of the Feature, of any of
\* the four kinds, was looked up; an absent one has its INVALID_ID; a resolved
\* one without Verification link has its MISSING_V; and the verifications
\* looked up are exactly those of the resolved requirements that have some.
C6_EveryRequirementWalked ==
    (ChainReturned /\ Resolves(feat_id)) =>
        /\ \A r \in PageRequirements(feat_id) :
            /\ Times(lookups, r) = 1
            /\ Absent(r) => Count(result.errors, "INVALID_ID", r) = 1
            /\ (Resolves(r) /\ registry[r].page.n = 0) =>
                    Count(result.errors, "MISSING_V", r) = 1
            /\ (Resolves(r) /\ registry[r].page.n > 0) =>
                    /\ Count(result.errors, "MISSING_V", r) = 0
                    /\ PageVerifications(r) \subseteq Range(lookups)
        /\ Range(lookups) \cap VerificationIds =
              UNION {PageVerifications(r) : r \in {q \in PageRequirements(feat_id) : Resolves(q)}}

C6_Witness ==
    /\ ChainReturned
    /\ Resolves(feat_id)
    /\ registry[feat_id].page.kinds = {"NFR", "TCR"}
    /\ Absent(NFR1)
    /\ Resolves(TCR1)
    /\ registry[TCR1].page.n = 0
    /\ Count(result.errors, "INVALID_ID", NFR1) = 1
    /\ Count(result.errors, "MISSING_V", TCR1) = 1

\* the scenario of C7: BR, UR and FR links, the one Requirement FR1, its one
\* Verification V1 with a TestCase link, status "Verified" and no Evidence link
VerifiedWithoutEvidence ==
    /\ feat_id = FEAT1
    /\ Resolves(FEAT1)
    /\ registry[FEAT1].page.br
    /\ registry[FEAT1].page.ur
    /\ registry[FEAT1].page.kinds = {"FR"}
    /\ Resolves(FR1)
    /\ registry[FR1].page.n = 1
    /\ Resolves(V1)
    /\ registry[V1].page.status = S_Verified
    /\ registry[V1].page.tc
    /\ ~registry[V1].page.ea

\* C7: in that scenario the result has exactly one error, MISSING_EA for the
\* verification, no MISSING_TC, and is not valid.
C7_VerifiedWithoutEvidence ==
    (pc = "done" /\ VerifiedWithoutEvidence) =>
        /\ result.kind = "returned"
        /\ Codes(result.errors) = <<"MISSING_EA">>
        /\ Count(result.errors, "MISSING_EA", V1) = 1
        /\ Count(result.errors, "MISSING_TC", V1) = 0
        /\ ~result.valid

C7_Witness == pc = "done" /\ VerifiedWithoutEvidence /\ ~result.valid

\* the chain validation of feature f meets a lookup that raises
ChainFails(f) ==
    \/ Unreachable(f)
    \/ /\ Resolves(f)
       /\ \E r \in PageRequirements(f) :
            \/ Unreachable(r)
            \/ Resolves(r) /\ \E x \in PageVerifications(r) : Unreachable(x)

\* the positions of the entries with the given code tagged with feature f
FeatureEntries(entries, code, f) ==
    {i \in 1..Len(entries) :
        /\ entries[i].code = <<code>>
        /\ "feature" \in DOMAIN entries[i]
        /\ entries[i].feature = f}

\* the ids the manifest references anywhere
ReferencedIds(m) == {a[2] : a \in Range(ReferenceAdds(m))}

\* the positions of the entries of the id pass about id
IdEntries(entries, id) ==
    {i \in 1..Len(entries) : "id" \in DOMAIN entries[i] /\ entries[i].id = id}

ConsReturned == cpc = "done" /\ cresult.kind = "returned"

\* C8: validate ends with a returned result, never with an exception; chain
\* validation was called for every declared feature, in order; and the result
\* holds one VALIDATION_ERROR entry tagged with a feature for each of its chain
\* validations that raised, none for a feature whose validation returned.
C8_ValidateNeverRaises ==
    cpc = "done" =>
        /\ cresult.kind = "returned"
        /\ cresult.errors = cerrors
        /\ chained = [i \in 1..Len(manifest.features) |-> manifest.features[i].id]
        /\ \A f \in {FEAT1, FEAT2} :
              Cardinality(FeatureEntries(cresult.errors, "VALIDATION_ERROR", f))
                 = (IF ChainFails(f) THEN Times(chained, f) ELSE 0)

C8_Witness ==
    /\ ConsReturned
    /\ chained = <<FEAT1, FEAT2>>
    /\ Resolves(FEAT1)
    /\ ChainFails(FEAT1)
    /\ Cardinality(FeatureEntries(cresult.errors, "VALIDATION_ERROR", FEAT1)) = 1
    /\ Resolves(FEAT2)
    /\ Cardinality(FeatureEntries(cresult.warnings, "MISSING_CF", FEAT2)) = 1

\* C9: every referenced id gets exactly one outcome: INVALID_FORMAT once and
\* no registry query when its format is invalid; INVALID_ID once when it is
\* well-formed and absent; INVALID_ID once, with the failure message, when it
\* is well-formed and its lookup raises; no entry when it is found.
C9_OneOutcomePerId ==
    ConsReturned =>
        \A id \in ReferencedIds(manifest) :
            LET es == IdEntries(cresult.errors, id)
            IN  IF ~ValidateIdFormat(id)
                THEN /\ Cardinality(es) = 1
                     /\ \A i \in es : cresult.errors[i].code = <<"INVALID_FORMAT">>
                     /\ id \notin Range(queried)
                ELSE IF Resolves(id) THEN es = {}
                ELSE /\ Cardinality(es) = 1
                     /\ \A i \in es :
                          /\ cresult.errors[i].code = <<"INVALID_ID">>
                          /\ Unreachable(id) =>
                               cresult.errors[i].message =
                                  <<"Error checking ID ">> \o id \o <<":", " ">> \o API_ERROR

\* C10: over a run every referenced id is checked once, however many places
\* of the manifest reference it: a well-formed id is looked up exactly once,
\* and no id has more than one INVALID_FORMAT or INVALID_ID entry of the id pass.
C10_EachIdCheckedOnce ==
    ConsReturned =>
        \A id \in ReferencedIds(manifest) :
            /\ ValidateIdFormat(id) => Times(queried, id) = 1
            /\ Cardinality(IdEntries(cresult.errors, id)) <= 1

\* the entries that the fold of the chain messages msgs for feature f adds
FoldedEntries(msgs, f) ==
    [i \in 1..Len(msgs) |-> [code |-> <<msgs[i][1]>>, message |-> msgs[i], feature |-> f]]

\* s ends with the sequence t
EndsWith(s, t) == Len(s) >= Len(t) /\ SubSeq(s, Len(s) - Len(t) + 1, Len(s)) = t

\* C11: the returned result is valid exactly when its errors list is empty,
\* whatever its warnings; and right after a returned chain result was folded,
\* errors ends with one entry per chain error and warnings with one entry per
\* chain warning, each with the message, the feature id of the call and the
\* code that stands before the colon of the message.
C11_ValidIffNoErrors ==
    /\ ConsReturned =>
          /\ cresult.valid <=> (cresult.errors = Empty)
          /\ cresult.errors = cerrors
          /\ cresult.warnings = cwarnings
    /\ (cpc = "features" /\ pc = "idle" /\ result.kind = "returned") =>
          /\ EndsWith(cerrors, FoldedEntries(result.errors, feat_id))
          /\ EndsWith(cwarnings, FoldedEntries(result.warnings, feat_id))
          /\ feat_id = chained[Len(chained)]

C11_Witness ==
    /\ ConsReturned
    /\ cresult.valid
    /\ cresult.errors = Empty
    /\ Len(cresult.warnings) = 1
    /\ cresult.warnings[1].code = <<"MISSING_CF">>
    /\ cresult.warnings[1].feature = FEAT2

(***************************************************************************)
(* Code symbols, manifest symbol mappings and exclusions, modelled from    *)
(*   src/src/golden_thread/parsers/base.py                                 *)
(*   src/src/golden_thread/validators/coverage.py                          *)
(*   src/src/golden_thread/validators/orphans.py                           *)
(* A CodeSymbol keeps the fields the validators decide on: name, type,     *)
(* file_path and parent; the line numbers are only copied into reports.    *)
(***************************************************************************)
CodeSymbol(name, type, file_path, parent) ==
    [name |-> name, type |-> type, file_path |-> file_path, parent |-> parent]

\* CodeSymbol.qualified_path
QualifiedPath(symbol) ==
    IF symbol.parent # Empty
    THEN symbol.file_path \o <<":", ":">> \o symbol.parent \o <<".">> \o symbol.name
    ELSE symbol.file_path \o <<":", ":">> \o symbol.name

\* SymbolMapping with its path
SymbolMapping(path, type, ids) == [path |-> path, type |-> type, ids |-> ids]

\* Exclusions
Exclusions(patterns, symbols) == [patterns |-> patterns, symbols |-> symbols]

\* Manifest.get_symbol_paths
GetSymbolPaths(m) == {m.symbols[i].path : i \in 1..Len(m.symbols)}

\* Manifest.is_excluded
ManifestIsExcluded(m, symbol_path) == symbol_path \in Range(m.exclusions.symbols)

\* str.startswith
StartsWith(s, prefix) == Len(s) >= Len(prefix) /\ SubSeq(s, 1, Len(prefix)) = prefix

\* the names of lines 116 and 124 of coverage.py
SPECIAL_METHODS ==
    {<<"_","_","i","n","i","t","_","_">>, <<"_","_","s","t","r","_","_">>,
     <<"_","_","r","e","p","r","_","_">>, <<"_","_","e","q","_","_">>,
     <<"_","_","h","a","s","h","_","_">>}

FIXTURE_METHODS ==
    {<<"s","e","t","U","p">>, <<"t","e","a","r","D","o","w","n">>,
     <<"s","e","t","U","p","C","l","a","s","s">>,
     <<"t","e","a","r","D","o","w","n","C","l","a","s","s">>}

TEST_PREFIX == <<"t","e","s","t","_">>

RECURSIVE FnMatchCase(_, _)
\* fnmatch.fnmatchcase for patterns made of literals, "*" and "?": the pattern
\* is translated to a regular expression in which "*" is ".*", and the whole
\* name must match
FnMatchCase(name, pat) ==
    IF pat = Empty THEN name = Empty
    ELSE IF pat[1] = "*"
         THEN \/ FnMatchCase(name, Tail(pat))
              \/ name # Empty /\ FnMatchCase(Tail(name), pat)
    ELSE IF name = Empty THEN FALSE
    ELSE IF pat[1] = "?" THEN FnMatchCase(Tail(name), Tail(pat))
    ELSE name[1] = pat[1] /\ FnMatchCase(Tail(name), Tail(pat))

\* the parts of a relative path, as PurePath parses them
PathParts(s) == SelectSeq(Split(s, "/"), LAMBDA p : p # Empty /\ p # <<".">>)

\* PurePath(path).match(pattern) for a relative, non-empty pattern: the parts of
\* the pattern are matched one by one against the last parts of the path
PathMatch(path, pattern) ==
    LET parts == PathParts(path)
        pat_parts == PathParts(pattern)
        n == Len(parts)
        k == Len(pat_parts)
    IN  /\ k <= n
        /\ \A j \in 1..k : FnMatchCase(parts[n - k + j], pat_parts[j])

(***************************************************************************)
(* CoverageValidator                                                       *)
(***************************************************************************)
\* line 36 keeping the checkable symbols only
SymbolMapKeys_CheckableOnly(symbols) ==
    {QualifiedPath(symbols[i]) : i \in {j \in 1..Len(symbols) :
        ~StartsWith(symbols[j].name, <<"_">>) /\ ~StartsWith(symbols[j].name, TEST_PREFIX)}}

\* CoverageValidator.__init__, line 36: the keys of symbol_map
SymbolMapKeys(symbols) == {QualifiedPath(symbols[i]) : i \in 1..Len(symbols)}

\* _should_check_symbol without the check of line 124
CoverageShouldCheckSymbol_NoFixtures(symbol) ==
    /\ ~StartsWith(symbol.name, <<"_">>)
    /\ symbol.name \notin SPECIAL_METHODS
    /\ ~StartsWith(symbol.name, TEST_PREFIX)

\* CoverageValidator._should_check_symbol
CoverageShouldCheckSymbol(symbol) ==
    /\ ~StartsWith(symbol.name, <<"_">>)
    /\ symbol.name \notin SPECIAL_METHODS
    /\ ~StartsWith(symbol.name, TEST_PREFIX)
    /\ symbol.name \notin FIXTURE_METHODS

\* CoverageValidator._is_excluded
CoverageIsExcluded(m, symbol) ==
    \/ ManifestIsExcluded(m, QualifiedPath(symbol))
    \/ \E i \in 1..Len(m.exclusions.patterns) :
          FnMatchCase(symbol.file_path, m.exclusions.patterns[i])

\* lines 53-60
OrphanManifestError(mapping) ==
    [code |-> <<"ORPHAN_MANIFEST">>,
     message |-> <<"Manifest entry '">> \o mapping.path \o <<"' has no matching code">>,
     path |-> mapping.path, ids |-> mapping.ids]

\* lines 73-82
OrphanCodeError(symbol) ==
    [code |-> <<"ORPHAN_CODE">>,
     message |-> <<"Code symbol '">> \o QualifiedPath(symbol) \o <<"' not in manifest">>,
     path |-> QualifiedPath(symbol), file |-> symbol.file_path, type |-> symbol.type]

\* line 90: mapped / total * 100 as the fraction num / den, 0.0 for no symbol
CoveragePercentage(mapped, total) ==
    IF total > 0 THEN [num |-> mapped * 100, den |-> total] ELSE [num |-> 0, den |-> 1]

\* lines 51-63 with mapped_symbols holding one element per mapping
CovMapping_CountsDuplicates ==
    /\ vpc = "run"
    /\ mi <= Len(manifest.symbols)
    /\ LET mapping == manifest.symbols[mi]
       IN  IF mapping.path \notin SymbolMapKeys(parsed_symbols)
           THEN /\ cov_errors' = Append(cov_errors, OrphanManifestError(mapping))
                /\ invalid_mappings' = Append(invalid_mappings, mapping.path)
                /\ UNCHANGED mapped_symbols
           ELSE /\ mapped_symbols' = mapped_symbols \cup {<<mi, mapping.path>>}
                /\ UNCHANGED <<cov_errors, invalid_mappings>>
    /\ mi' = mi + 1
    /\ UNCHANGED <<clientVars, restVars, history, registry, caller, chainVars, consVars, parsed_symbols,
                   close_matches, orphVars,
                   vpc, orphan_symbols, si, cov_result>>

\* lines 51-63: the next manifest mapping
CovMapping ==
    /\ vpc = "run"
    /\ mi <= Len(manifest.symbols)
    /\ LET mapping == manifest.symbols[mi]
       IN  IF mapping.path \notin SymbolMapKeys(parsed_symbols)
           THEN /\ cov_errors' = Append(cov_errors, OrphanManifestError(mapping))
                /\ invalid_mappings' = Append(invalid_mappings, mapping.path)
                /\ UNCHANGED mapped_symbols
           ELSE /\ mapped_symbols' = mapped_symbols \cup {mapping.path}
                /\ UNCHANGED <<cov_errors, invalid_mappings>>
    /\ mi' = mi + 1
    /\ UNCHANGED <<clientVars, restVars, history, registry, caller, chainVars, consVars, parsed_symbols,
                   close_matches, orphVars,
                   vpc, orphan_symbols, si, cov_result>>

\* lines 66-83: the next parsed symbol
CovSymbol ==
    /\ vpc = "run"
    /\ mi > Len(manifest.symbols)
    /\ si <= Len(parsed_symbols)
    /\ LET symbol == parsed_symbols[si]
       IN  IF /\ CoverageShouldCheckSymbol(symbol)
              /\ QualifiedPath(symbol) \notin GetSymbolPaths(manifest)
              /\ ~CoverageIsExcluded(manifest, symbol)
           THEN /\ cov_errors' = Append(cov_errors, OrphanCodeError(symbol))
                /\ orphan_symbols' = Append(orphan_symbols, QualifiedPath(symbol))
           ELSE UNCHANGED <<cov_errors, orphan_symbols>>
    /\ si' = si + 1
    /\ UNCHANGED <<clientVars, restVars, history, registry, caller, chainVars, consVars, parsed_symbols,
                   close_matches, orphVars,
                   vpc, invalid_mappings, mapped_symbols, mi, cov_result>>

\* lines 86-99
CovReturn ==
    /\ vpc = "run"
    /\ mi > Len(manifest.symbols)
    /\ si > Len(parsed_symbols)
    /\ LET checkable_symbols == SelectSeq(parsed_symbols, CoverageShouldCheckSymbol)
           total == Len(checkable_symbols)
           mapped == Cardinality(mapped_symbols)
       IN  cov_result' =
             [kind |-> "returned", total_symbols |-> total, mapped_symbols |-> mapped,
              orphan_symbols |-> orphan_symbols, invalid_mappings |-> invalid_mappings,
              coverage_percentage |-> CoveragePercentage(mapped, total),
              errors |-> cov_errors]
    /\ vpc' = "done"
    /\ history' = Append(history, [validator |-> "coverage", result |-> cov_result'])
    /\ UNCHANGED <<clientVars, restVars>>
    /\ UNCHANGED <<registry, caller, chainVars, consVars, parsed_symbols, close_matches,
                   orphVars,
                   cov_errors, orphan_symbols, invalid_mappings, mapped_symbols, mi, si>>

CoverageNext == CovMapping \/ CovSymbol \/ CovReturn

(***************************************************************************)
(* The code symbols and manifests the coverage and orphan validators are   *)
(* checked on: a file at the root, in a directory and in a sub-directory;  *)
(* public, private, test and fixture names; duplicated mappings; glob and  *)
(* explicit exclusions.                                                    *)
(***************************************************************************)
F_ROOT == <<"m", ".", "p", "y">>
F_SUB == <<"d", "/">> \o F_ROOT
F_DEEP == <<"d", "/", "e", "/">> \o F_ROOT

N_K == <<"K">>
N_setUp == <<"s","e","t","U","p">>
N_test_x == <<"t","e","s","t","_","x">>
N_private == <<"_","p">>

SymbolPool ==
    {CodeSymbol(N_K, "class", F_ROOT, Empty),
     CodeSymbol(N_K, "class", F_SUB, Empty),
     CodeSymbol(N_K, "class", F_DEEP, Empty),
     CodeSymbol(N_setUp, "method", F_ROOT, N_K),
     CodeSymbol(N_test_x, "function", F_ROOT, Empty),
     CodeSymbol(N_private, "function", F_SUB, Empty)}

ParsedLists == UNION {[1..n -> SymbolPool] : n \in 0..MaxSymbols}

\* the path of a symbol that is in no parsed list
GONE == <<"x", ".", "p", "y", ":", ":", "G">>

MappingPool ==
    {SymbolMapping(F_ROOT \o <<":", ":">> \o N_K, "class", <<FR1>>),
     SymbolMapping(F_ROOT \o <<":", ":">> \o N_test_x, "function", <<FR1>>),
     SymbolMapping(GONE, "class", <<BR1>>)}

MappingLists == UNION {[1..n -> MappingPool] : n \in 0..MaxMappings}

\* "**/m.py" and "d/*"
PAT_ANYDIR == <<"*", "*", "/">> \o F_ROOT
PAT_DIR == <<"d", "/", "*">>

ExclusionPool ==
    {Exclusions(Empty, Empty),
     Exclusions(<<PAT_ANYDIR>>, Empty),
     Exclusions(<<PAT_DIR>>, Empty),
     Exclusions(Empty, <<F_ROOT \o <<":", ":">> \o N_K>>)}

SymbolManifests ==
    {[symbols |-> ms, features |-> Empty, interfaces |-> Empty, tests |-> Empty,
      exclusions |-> x] : ms \in MappingLists, x \in ExclusionPool}

\* the state in which no chain or consistency validation runs
RegistryIdle ==
    /\ registry = [id \in {} |-> RemoteAbsent]
    /\ caller = "none"
    /\ feat_id = Empty
    /\ pc = "idle"
    /\ ChainIdle
    /\ cpc = "off"
    /\ all_ids = Empty
    /\ cerrors = Empty
    /\ cwarnings = Empty
    /\ fi = 0
    /\ queried = Empty
    /\ chained = Empty
    /\ cresult = NoResult

\* CoverageValidator(manifest, parsed_symbols).validate() is about to run
InitCoverage ==
    /\ ClientIdle
    /\ RestIdle
    /\ manifest \in SymbolManifests
    /\ parsed_symbols \in ParsedLists
    /\ vpc = "run"
    /\ cov_errors = Empty
    /\ orphan_symbols = Empty
    /\ invalid_mappings = Empty
    /\ mapped_symbols = {}
    /\ mi = 1
    /\ si = 1
    /\ cov_result = NoCoverage
    /\ close_matches = NoMatches
    /\ history = Empty
    /\ OrphansIdle
    /\ RegistryIdle

SpecCoverage == InitCoverage /\ [][CoverageNext]_vars

(***************************************************************************)
(* Claims on CoverageValidator.validate                                    *)
(***************************************************************************)
CoverageReturned == vpc = "done" /\ cov_result.kind = "returned"

\* the positions of the parsed symbols, of the manifest mappings
Parsed == 1..Len(parsed_symbols)
Mappings == 1..Len(manifest.symbols)

\* the qualified paths of the parsed symbols
ParsedPaths == {QualifiedPath(parsed_symbols[i]) : i \in Parsed}

\* the checkable filter: the name starts with no underscore and with no
\* "test_", and is no special-method and no fixture name
Checkable(symbol) ==
    /\ symbol.name[1] # "_"
    /\ symbol.name \notin SPECIAL_METHODS \cup FIXTURE_METHODS
    /\ ~(Len(symbol.name) >= 5 /\ SubSeq(symbol.name, 1, 5) = TEST_PREFIX)

\* the number of entries of the given code and path
ErrorsAt(entries, code, path) ==
    Cardinality({i \in 1..Len(entries) :
        entries[i].code = <<code>> /\ entries[i].path = path})

\* every parsed symbol is mapped and every mapping matches a parsed symbol
FullyMapped ==
    /\ \A i \in Parsed : QualifiedPath(parsed_symbols[i]) \in GetSymbolPaths(manifest)
    /\ \A j \in Mappings : manifest.symbols[j].path \in ParsedPaths

\* the parsed list is not empty and names no symbol twice
DistinctParsed ==
    /\ parsed_symbols # Empty
    /\ \A i, j \in Parsed : parsed_symbols[i] = parsed_symbols[j] => i = j

\* C12: with every parsed symbol mapped and every mapping matched, whatever
\* the names of the symbols, coverage is 100.0, total_symbols and
\* mapped_symbols equal the number of parsed symbols, and orphan_symbols,
\* invalid_mappings and errors are empty.
C12_FullCoverage ==
    (CoverageReturned /\ FullyMapped /\ DistinctParsed) =>
        /\ cov_result.coverage_percentage.num = 100 * cov_result.coverage_percentage.den
        /\ cov_result.total_symbols = Len(parsed_symbols)
        /\ cov_result.mapped_symbols = Len(parsed_symbols)
        /\ cov_result.orphan_symbols = Empty
        /\ cov_result.invalid_mappings = Empty
        /\ cov_result.errors = Empty

C15_OrphanManifestExactly ==
    CoverageReturned =>
        /\ Range(cov_result.invalid_mappings) \subseteq GetSymbolPaths(manifest)
        /\ \A p \in GetSymbolPaths(manifest) :
              LET n == IF p \in ParsedPaths THEN 0
                       ELSE Cardinality({j \in Mappings : manifest.symbols[j].path = p})
              IN  /\ Times(cov_result.invalid_mappings, p) = n
                  /\ ErrorsAt(cov_result.errors, "ORPHAN_MANIFEST", p) = n

C15_Witness ==
    /\ CoverageReturned
    /\ Len(manifest.symbols) = 2
    /\ manifest.symbols[1].path = GONE
    /\ manifest.symbols[2].path = F_ROOT \o <<":", ":">> \o N_test_x
    /\ Len(parsed_symbols) = 1
    /\ parsed_symbols[1].name = N_test_x
    /\ cov_result.invalid_mappings = <<GONE>>
    /\ ErrorsAt(cov_result.errors, "ORPHAN_MANIFEST", GONE) = 1

\* the exclusion of C17: fnmatch of the file path, and a pattern "**/NAME"
\* matching the file NAME that has no directory
GlobExcludes(file_path, pattern) ==
    \/ FnMatchCase(file_path, pattern)
    \/ /\ StartsWith(pattern, <<"*", "*", "/">>)
       /\ file_path = SubSeq(pattern, 4, Len(pattern))

ExcludedAsClaimed(symbol) ==
    \/ QualifiedPath(symbol) \in Range(manifest.exclusions.symbols)
    \/ \E i \in 1..Len(manifest.exclusions.patterns) :
          GlobExcludes(symbol.file_path, manifest.exclusions.patterns[i])

\* C17: a checkable, unmapped parsed symbol is in orphan_symbols exactly when
\* it is not excluded, where it is excluded when its qualified path is in the
\* exclusion-symbol list or its file path matches an exclusion pattern, a
\* pattern "**/NAME" matching the file NAME at the root too.
C17_ExcludedNeverOrphan ==
    CoverageReturned =>
        \A i \in Parsed :
            LET symbol == parsed_symbols[i]
            IN  (Checkable(symbol) /\ QualifiedPath(symbol) \notin GetSymbolPaths(manifest)) =>
                    (QualifiedPath(symbol) \in Range(cov_result.orphan_symbols)
                        <=> ~ExcludedAsClaimed(symbol))

(***************************************************************************)
(* OrphanValidator                                                         *)
(***************************************************************************)
\* OrphanValidator._should_check_symbol
OrphanShouldCheckSymbol(symbol) ==
    /\ ~StartsWith(symbol.name, <<"_">>)
    /\ symbol.name \notin SPECIAL_METHODS
    /\ ~StartsWith(symbol.name, TEST_PREFIX)

\* OrphanValidator._is_excluded
OrphanIsExcluded(m, symbol) ==
    \/ ManifestIsExcluded(m, QualifiedPath(symbol))
    \/ \E i \in 1..Len(m.exclusions.patterns) :
          PathMatch(symbol.file_path, m.exclusions.patterns[i])

\* lines 55-60
OrphanCodeEntry(symbol) ==
    [path |-> QualifiedPath(symbol), type |-> symbol.type, file |-> symbol.file_path]

\* lines 64-70, the snippet of _generate_manifest_snippet by its variable parts
CodeSuggestion(symbol) ==
    [orphan |-> QualifiedPath(symbol), type |-> "code",
     suggestion |-> <<"Add to .golden-thread.yaml", QualifiedPath(symbol), symbol.type>>]

\* line 75
OrphanManifestEntry(mapping) == [path |-> mapping.path, ids |-> mapping.ids]

\* lines 78-96: the text depends on whether get_close_matches finds a parsed
\* path with a similarity ratio of 0.6 or more
ManifestSuggestion(mapping, similar) ==
    [orphan |-> mapping.path, type |-> "manifest",
     suggestion |-> IF similar THEN <<"Did you mean one of these?">>
                    ELSE <<"Symbol not found in codebase">>]

\* lines 51-70 without the test of line 52
OrphSymbol_IgnoresManifest ==
    /\ opc = "run"
    /\ osi <= Len(parsed_symbols)
    /\ LET symbol == parsed_symbols[osi]
       IN  IF /\ ~OrphanIsExcluded(manifest, symbol)
              /\ OrphanShouldCheckSymbol(symbol)
           THEN /\ orphan_code' = Append(orphan_code, OrphanCodeEntry(symbol))
                /\ suggestions' = Append(suggestions, CodeSuggestion(symbol))
           ELSE UNCHANGED <<orphan_code, suggestions>>
    /\ osi' = osi + 1
    /\ UNCHANGED <<clientVars, restVars, history, registry, caller, chainVars, consVars, parsed_symbols,
                   close_matches, covVars, opc, orphan_manifest, omi, orph_result>>

\* lines 51-70: the next parsed symbol
OrphSymbol ==
    /\ opc = "run"
    /\ osi <= Len(parsed_symbols)
    /\ LET symbol == parsed_symbols[osi]
       IN  IF /\ QualifiedPath(symbol) \notin GetSymbolPaths(manifest)
              /\ ~OrphanIsExcluded(manifest, symbol)
              /\ OrphanShouldCheckSymbol(symbol)
           THEN /\ orphan_code' = Append(orphan_code, OrphanCodeEntry(symbol))
                /\ suggestions' = Append(suggestions, CodeSuggestion(symbol))
           ELSE UNCHANGED <<orphan_code, suggestions>>
    /\ osi' = osi + 1
    /\ UNCHANGED <<clientVars, restVars, history, registry, caller, chainVars, consVars, parsed_symbols,
                   close_matches, covVars, opc, orphan_manifest, omi, orph_result>>

\* lines 73-96: the next manifest mapping
OrphMapping ==
    /\ opc = "run"
    /\ osi > Len(parsed_symbols)
    /\ omi <= Len(manifest.symbols)
    /\ LET mapping == manifest.symbols[omi]
       IN  IF mapping.path \notin {QualifiedPath(parsed_symbols[i]) :
                                      i \in 1..Len(parsed_symbols)}
           THEN /\ orphan_manifest' = Append(orphan_manifest, OrphanManifestEntry(mapping))
                /\ suggestions' =
                     Append(suggestions,
                            ManifestSuggestion(mapping, close_matches[mapping.path]))
           ELSE UNCHANGED <<orphan_manifest, suggestions>>
    /\ omi' = omi + 1
    /\ UNCHANGED <<clientVars, restVars, history, registry, caller, chainVars, consVars, parsed_symbols,
                   close_matches, covVars, opc, orphan_code, osi, orph_result>>

\* lines 98-100
OrphReturn ==
    /\ opc = "run"
    /\ osi > Len(parsed_symbols)
    /\ omi > Len(manifest.symbols)
    /\ orph_result' =
         [kind |-> "returned", orphan_code |-> orphan_code,
          orphan_manifest |-> orphan_manifest, suggestions |-> suggestions]
    /\ opc' = "done"
    /\ history' = Append(history, [validator |-> "orphans", result |-> orph_result'])
    /\ UNCHANGED <<clientVars, restVars>>
    /\ UNCHANGED <<registry, caller, chainVars, consVars, parsed_symbols, close_matches,
                   covVars, orphan_code, orphan_manifest, suggestions, osi, omi>>

OrphansNext == OrphSymbol \/ OrphMapping \/ OrphReturn

\* the answers get_close_matches can give for the manifest paths that are no
\* parsed path: none when there is no parsed symbol to compare with
CloseMatches(m, symbols) ==
    LET unmatched == GetSymbolPaths(m) \ {QualifiedPath(symbols[i]) : i \in 1..Len(symbols)}
    IN  IF symbols = Empty THEN {[p \in unmatched |-> FALSE]}
        ELSE [unmatched -> BOOLEAN]

\* OrphanValidator(manifest, parsed_symbols).detect_orphans() is about to run
InitOrphans ==
    /\ ClientIdle
    /\ RestIdle
    /\ manifest \in SymbolManifests
    /\ parsed_symbols \in ParsedLists
    /\ close_matches \in CloseMatches(manifest, parsed_symbols)
    /\ opc = "run"
    /\ orphan_code = Empty
    /\ orphan_manifest = Empty
    /\ suggestions = Empty
    /\ osi = 1
    /\ omi = 1
    /\ orph_result = NoOrphans
    /\ history = Empty
    /\ CoverageIdle
    /\ RegistryIdle

SpecOrphans == InitOrphans /\ [][OrphansNext]_vars

(***************************************************************************)
(* Claims on OrphanValidator.detect_orphans                                *)
(***************************************************************************)
OrphansReturned == opc = "done" /\ orph_result.kind = "returned"

\* the number of entries an orphan list holds for a path
EntriesFor(entries, p) == Cardinality({i \in 1..Len(entries) : entries[i].path = p})

\* the number of suggestions of a type made for a path
SuggestionsFor(entries, p, type) ==
    Cardinality({i \in 1..Len(entries) : entries[i].orphan = p /\ entries[i].type = type})

\* the paths an orphan list reports
PathsOf(entries) == {entries[i].path : i \in 1..Len(entries)}

\* C18: when detect_orphans has returned, every parsed checkable symbol the
\* validator does not exclude and whose qualified path is no manifest symbol
\* path is in orphan_code; every manifest mapping whose path is no parsed
\* qualified path is in orphan_manifest; a path that is both parsed and
\* mapped is in neither list; and suggestions holds, for every path, as many
\* entries of type code as orphan_code has entries for it and as many of type
\* manifest as orphan_manifest has, and nothing else.
C18_SymmetricComplete ==
    OrphansReturned =>
        LET r == orph_result
            both == ParsedPaths \cap GetSymbolPaths(manifest)
        IN  /\ \A i \in Parsed :
                  LET symbol == parsed_symbols[i]
                  IN  (/\ Checkable(symbol)
                       /\ ~OrphanIsExcluded(manifest, symbol)
                       /\ QualifiedPath(symbol) \notin GetSymbolPaths(manifest))
                      => QualifiedPath(symbol) \in PathsOf(r.orphan_code)
            /\ \A j \in Mappings :
                  manifest.symbols[j].path \notin ParsedPaths
                  => manifest.symbols[j].path \in PathsOf(r.orphan_manifest)
            /\ both \cap (PathsOf(r.orphan_code) \cup PathsOf(r.orphan_manifest)) = {}
            /\ Len(r.suggestions) = Len(r.orphan_code) + Len(r.orphan_manifest)
            /\ \A p \in PathsOf(r.orphan_code) :
                  SuggestionsFor(r.suggestions, p, "code") = EntriesFor(r.orphan_code, p)
            /\ \A p \in PathsOf(r.orphan_manifest) :
                  SuggestionsFor(r.suggestions, p, "manifest")
                  = EntriesFor(r.orphan_manifest, p)

\* detect_orphans has returned one orphan of each side, each with its one
\* suggestion, and a symbol that is parsed and mapped is in neither list
C18_Witness ==
    /\ OrphansReturned
    /\ Len(orph_result.orphan_code) = 1
    /\ Len(orph_result.orphan_manifest) = 1
    /\ Len(orph_result.suggestions) = 2
    /\ ParsedPaths \cap GetSymbolPaths(manifest) # {}
    /\ orph_result.suggestions[1].type = "code"
    /\ orph_result.suggestions[2].type = "manifest"

(***************************************************************************)
(* The three validators run one after the other on the same manifest,      *)
(* parsed symbols and registry.                                            *)
(***************************************************************************)
\* the number of validator runs that are followed
MaxRuns == 3

\* no validator is in the middle of a run
NoneRunning ==
    /\ vpc \in {"off", "done"}
    /\ opc \in {"off", "done"}
    /\ cpc \in {"off", "done"}

\* coverage.py lines 45-48 without the fresh errors list: the findings of the
\* run before are still in it
StartCoverage_KeepsErrors ==
    /\ NoneRunning
    /\ Len(history) < MaxRuns
    /\ vpc' = "run"
    /\ orphan_symbols' = Empty
    /\ invalid_mappings' = Empty
    /\ mapped_symbols' = {}
    /\ mi' = 1
    /\ si' = 1
    /\ cov_result' = NoCoverage
    /\ UNCHANGED <<clientVars, restVars, history, registry, caller, chainVars, consVars, parsed_symbols,
                   close_matches, orphVars, cov_errors>>

\* coverage.py lines 38-48: validate() is called and sets up its lists
StartCoverage ==
    /\ NoneRunning
    /\ Len(history) < MaxRuns
    /\ vpc' = "run"
    /\ cov_errors' = Empty
    /\ orphan_symbols' = Empty
    /\ invalid_mappings' = Empty
    /\ mapped_symbols' = {}
    /\ mi' = 1
    /\ si' = 1
    /\ cov_result' = NoCoverage
    /\ UNCHANGED <<clientVars, restVars, history, registry, caller, chainVars, consVars, parsed_symbols,
                   close_matches, orphVars>>

\* orphans.py lines 35-48: detect_orphans() is called and sets up its lists
StartOrphans ==
    /\ NoneRunning
    /\ Len(history) < MaxRuns
    /\ opc' = "run"
    /\ orphan_code' = Empty
    /\ orphan_manifest' = Empty
    /\ suggestions' = Empty
    /\ osi' = 1
    /\ omi' = 1
    /\ orph_result' = NoOrphans
    /\ UNCHANGED <<clientVars, restVars, history, registry, caller, chainVars, consVars, parsed_symbols,
                   close_matches, covVars>>

\* consistency.py lines 33-41: validate() is called and sets up its lists
StartConsistency ==
    /\ NoneRunning
    /\ Len(history) < MaxRuns
    /\ cpc' = "start"
    /\ all_ids' = Empty
    /\ cerrors' = Empty
    /\ cwarnings' = Empty
    /\ fi' = 0
    /\ queried' = Empty
    /\ chained' = Empty
    /\ cresult' = NoResult
    /\ UNCHANGED <<clientVars, restVars, history, registry, caller, chainVars, manifest, valVars>>

RunsNext ==
    \/ StartCoverage
    \/ StartOrphans
    \/ StartConsistency
    \/ CoverageNext
    \/ OrphansNext
    \/ ConsNext

\* one manifest with symbol mappings, features, interfaces, tests and either
\* no exclusion or the pattern "d/*"
RunManifests ==
    {[symbols |-> <<SymbolMapping(F_ROOT \o <<":", ":">> \o N_K, "class", <<FR1>>),
                    SymbolMapping(GONE, "class", <<BR1, LOWER1>>)>>,
      features |-> <<Feature(FEAT2, <<FR1>>, Empty, <<CF1>>)>>,
      interfaces |-> <<Interface(IF1, <<FR1>>)>>,
      tests |-> <<Test(<<TC1>>, <<V1>>)>>,
      exclusions |-> x] :
        x \in {Exclusions(Empty, Empty), Exclusions(<<PAT_DIR>>, Empty)}}

\* a mapped class with an unmapped private function, with an unmapped fixture
\* method, or with an unmapped class two directories down
RunParsedLists ==
    {<<CodeSymbol(N_K, "class", F_ROOT, Empty), CodeSymbol(N_private, "function", F_SUB, Empty)>>,
     <<CodeSymbol(N_K, "class", F_ROOT, Empty), CodeSymbol(N_setUp, "method", F_ROOT, N_K)>>,
     <<CodeSymbol(N_K, "class", F_ROOT, Empty), CodeSymbol(N_K, "class", F_DEEP, Empty)>>}

\* the registries in which FEAT-002 resolves and FEAT-001 is absent
RunRegistries ==
    {r \in ConsRegistries : r[FEAT2].mode # "absent" /\ r[FEAT1].mode = "absent"}

\* nothing has run yet
InitRuns ==
    /\ ClientIdle
    /\ RestIdle
    /\ manifest \in RunManifests
    /\ parsed_symbols \in RunParsedLists
    /\ close_matches \in CloseMatches(manifest, parsed_symbols)
    /\ registry \in RunRegistries
    /\ caller = "consistency"
    /\ feat_id = Empty
    /\ pc = "idle"
    /\ ChainIdle
    /\ cpc = "off"
    /\ all_ids = Empty
    /\ cerrors = Empty
    /\ cwarnings = Empty
    /\ fi = 0
    /\ queried = Empty
    /\ chained = Empty
    /\ cresult = NoResult
    /\ history = Empty
    /\ CoverageIdle
    /\ OrphansIdle

SpecRuns == InitRuns /\ [][RunsNext]_vars

(***************************************************************************)
(* Claims on the validators run on the same inputs                         *)
(***************************************************************************)
\* the positions of the runs of a validator that have returned
RunsOf(validator) == {i \in 1..Len(history) : history[i].validator = validator}

\* C16: when the Coverage Validator and the Orphan Validator have both
\* returned for the same manifest and parsed symbols, each parsed symbol is
\* checkable for one exactly when it is for the other, and the paths of
\* CoverageResult.orphan_symbols are the paths of OrphanResult.orphan_code.
C16_SameCheckableFilter ==
    \A i \in RunsOf("coverage"), j \in RunsOf("orphans") :
        /\ \A k \in Parsed :
              CoverageShouldCheckSymbol(parsed_symbols[k])
              <=> OrphanShouldCheckSymbol(parsed_symbols[k])
        /\ Range(history[i].result.orphan_symbols)
           = PathsOf(history[j].result.orphan_code)

\* two ConsistencyResults with the same verdict, the same error entries, each
\* as often, and the same warnings
SameFindings(a, b) ==
    /\ a.kind = b.kind
    /\ a.valid = b.valid
    /\ \A e \in Range(a.errors) \cup Range(b.errors) : Times(a.errors, e) = Times(b.errors, e)
    /\ a.warnings = b.warnings

\* two runs of one validator gave the same result
SameResults(i, j) ==
    IF history[i].validator = "consistency"
    THEN SameFindings(history[i].result, history[j].result)
    ELSE history[i].result = history[j].result

rate_limit == 3

\* the resolution of the clock
TicksPerSecond == 3

\* line 53
MinInterval == TicksPerSecond \div rate_limit

\* the calls, the clock readings and the pages of one query that are followed
MaxCalls == 2
MaxTime == 3
MaxPages == 2

\* str(filter_params): "None" for no filter, the text of the dict otherwise
FilterStr(filter_params) ==
    IF filter_params = "None" THEN <<"N", "o", "n", "e">> ELSE <<"{", filter_params, "}">>

\* lines 136 and 212: the text the cache key is the SHA-256 digest of
SearchKeyData(database_id, filter_params) ==
    <<"d", "b", "_">> \o database_id \o <<"_">> \o FilterStr(filter_params)

PageKeyData(page_id) == <<"p", "a", "g", "e", "_">> \o page_id

\* _get_cache_key: the digest, taken to differ whenever the texts differ
GetCacheKey(key_data) == <<"sha256">> \o key_data

\* a file of the cache directory, or its absence
NoFile == [kind |-> "none", text |-> Empty, mtime |-> 0]
File(text, mtime) == [kind |-> "file", text |-> text, mtime |-> mtime]

\* json.dump of a value, and what a write that failed half way leaves
JsonDump(data) == <<"json", data>>
PartialText == <<"partial">>

\* json.load: the value, or an exception for text that is no JSON document
JsonLoad(text) ==
    IF text # <<>> /\ text[1] = "json" THEN [ok |-> TRUE, data |-> text[2]]
    ELSE [ok |-> FALSE, data |-> Empty]

\* Python's None and any other value
PyNone == [none |-> TRUE, data |-> Empty]
Some(data) == [none |-> FALSE, data |-> data]

\* cache_path.unlink()
Unlink(files, cache_key) == [files EXCEPT ![cache_key] = NoFile]

\* _get_cached taking an entry as old as the TTL for expired
GetCached_ExpiresEarly(cache_key) ==
    IF ~config.cache_enabled THEN [value |-> PyNone, cache |-> cache]
    ELSE IF cache[cache_key].kind = "none" THEN [value |-> PyNone, cache |-> cache]
    ELSE IF now - cache[cache_key].mtime >= config.cache_ttl
    THEN [value |-> PyNone, cache |-> Unlink(cache, cache_key)]
    ELSE LET loaded == JsonLoad(cache[cache_key].text)
         IN  IF loaded.ok THEN [value |-> Some(loaded.data), cache |-> cache]
             ELSE [value |-> PyNone, cache |-> Unlink(cache, cache_key)]

\* _get_cached: the value returned and the cache directory it leaves
GetCached(cache_key) ==
    IF ~config.cache_enabled THEN [value |-> PyNone, cache |-> cache]
    ELSE IF cache[cache_key].kind = "none" THEN [value |-> PyNone, cache |-> cache]
    ELSE IF now - cache[cache_key].mtime > config.cache_ttl
    THEN [value |-> PyNone, cache |-> Unlink(cache, cache_key)]
    ELSE LET loaded == JsonLoad(cache[cache_key].text)
         IN  IF loaded.ok THEN [value |-> Some(loaded.data), cache |-> cache]
             ELSE [value |-> PyNone, cache |-> Unlink(cache, cache_key)]

\* the ways the write of lines 113-114 can end: the file written, open()
\* failing, json.dump failing after open() has truncated the file
WriteOutcomes == {"written", "open_failed", "partial"}

\* _set_cached: the cache directory it leaves
SetCached(cache_key, data, outcome) ==
    IF ~config.cache_enabled THEN cache
    ELSE IF outcome = "written"
    THEN [cache EXCEPT ![cache_key] = File(JsonDump(data), now)]
    ELSE IF outcome = "partial"
    THEN [cache EXCEPT ![cache_key] = File(PartialText, now)]
    ELSE cache

\* lines 140 and 216 as 'if cached:'
IsHit_Truthy(cached) == ~cached.none /\ cached.data # Empty

\* lines 140 and 216: cached is not None
IsHit(cached) == ~cached.none

\* the outcomes of a request that fails: requests.Timeout, an HTTPError with
\* its status code, another RequestException
FailureStatuses == {"timeout", "404", "401", "429", "500", "request"}

\* lines 175-192: the NotionError search_database raises
SearchError(status, database_id) ==
    IF status = "timeout" THEN <<"Request timeout querying database", database_id>>
    ELSE IF status = "404" THEN <<"Database not found", database_id>>
    ELSE IF status = "401" THEN <<"Notion API authentication failed">>
    ELSE IF status = "429" THEN <<"Notion API rate limit exceeded">>
    ELSE IF status = "request" THEN <<"Failed to query database", database_id>>
    ELSE <<"Notion API error", status>>

\* lines 234-246: the NotionError get_page raises
PageError(status, page_id) ==
    IF status = "timeout" THEN <<"Request timeout retrieving page", page_id>>
    ELSE IF status = "404" THEN <<"Page not found", page_id>>
    ELSE IF status = "401" THEN <<"Notion API authentication failed">>
    ELSE IF status = "request" THEN <<"Failed to retrieve page", page_id>>
    ELSE <<"Notion API error", status>>

\* the record of a finished call: how it ended, whether its value came from
\* the cache, whether it wrote its cache file, when it ran, the requests it sent
Finished(c, outcome, from_cache, stored) ==
    [n |-> c.n, op |-> c.op, cache_key |-> c.cache_key, outcome |-> outcome,
     from_cache |-> from_cache, stored |-> stored,
     started |-> c.started, finished |-> now, sent |-> c.sent]

\* the value a call returns, the NotionError it raises
Return(value) == [kind |-> "returned", value |-> value]
RaiseNotionError(message) == [kind |-> "raised", value |-> message]

\* the arguments the client is called with
DB1 == <<"d", "1">>
PG1 == <<"p", "1">>
DatabaseIds == {DB1}
Filters == {"None", "f1"}
PageIds == {PG1}

CacheKeys ==
    {GetCacheKey(SearchKeyData(d, f)) : d \in DatabaseIds, f \in Filters}
    \cup {GetCacheKey(PageKeyData(p)) : p \in PageIds}

\* the row on the n-th page of a database, and the cursors the API hands out
Row(n) == <<"r1", "r2", "r3", "r4", "r5">>[n]
Cursors == {"c1", "c2"}

\* what the API can answer to a query request, the n-th of its call: a page
\* of results with has_more and next_cursor, or a failure
SearchResponses(n) ==
    {[status |-> "ok", results |-> r, has_more |-> FALSE, next_cursor |-> "none"] :
        r \in {Empty, <<Row(n)>>}}
    \cup (IF n < MaxPages
          THEN {[status |-> "ok", results |-> <<Row(n)>>, has_more |-> TRUE,
                 next_cursor |-> cursor] : cursor \in Cursors}
          ELSE {})
    \cup {[status |-> s, results |-> Empty, has_more |-> FALSE, next_cursor |-> "none"] :
            s \in FailureStatuses}

\* what the API can answer to a page request
PageResponses(page_id) ==
    {[status |-> "ok", result |-> <<"page", page_id>>]}
    \cup {[status |-> s, result |-> Empty] : s \in FailureStatuses}

\* a call begins: its arguments and the locals of lines 151-153
Begin(op, target, filter_params, cache_key) ==
    [n |-> call.n + 1, op |-> op, target |-> target, filter_params |-> filter_params,
     cache_key |-> cache_key, results |-> Empty, start_cursor |-> "none", sent |-> 0,
     started |-> now, pages |-> Empty]

\* the request of a call as it goes out at time t
Request(c, t) ==
    [n |-> c.n, at |-> t, op |-> c.op, target |-> c.target,
     filter_params |-> c.filter_params, start_cursor |-> c.start_cursor]

\* lines 136-141 and 212-217: the cache key, the cache read, the return of a
\* cached value
CallStart(c) ==
    LET cached == GetCached(c.cache_key)
    IN  /\ call' = c
        /\ cache' = cached.cache
        /\ IF IsHit(cached.value)
           THEN /\ calls' = Append(calls, Finished(c, "returned", TRUE, FALSE))
                /\ returned' = Return(cached.value.data)
                /\ kpc' = "idle"
           ELSE /\ kpc' = "rate"
                /\ UNCHANGED <<calls, returned>>
        /\ UNCHANGED <<config, now, last_request_time, requests, validatorVars, restVars>>

\* search_database(database_id, filter_params) is called
ClientSearchDatabase ==
    /\ kpc = "idle"
    /\ call.n < MaxCalls
    /\ \E database_id \in DatabaseIds, filter_params \in Filters :
         CallStart(Begin("search_database", database_id, filter_params,
                         GetCacheKey(SearchKeyData(database_id, filter_params))))

\* get_page(page_id) is called
ClientGetPage ==
    /\ kpc = "idle"
    /\ call.n < MaxCalls
    /\ \E page_id \in PageIds :
         CallStart(Begin("get_page", page_id, "None", GetCacheKey(PageKeyData(page_id))))

\* _rate_limit without the sleep of lines 55-56
RateLimit_NoSleep ==
    /\ kpc = "rate"
    /\ last_request_time' = now
    /\ requests' = Append(requests, Request(call, now))
    /\ kpc' = "request"
    /\ UNCHANGED <<config, now, cache, call, calls, returned, validatorVars, restVars>>

\* _rate_limit, lines 50-58: sleep what is left of the interval, then record
\* the time; the requests.post of line 160 or requests.get of line 225 that
\* follows sends the request and waits for the response
RateLimit ==
    /\ kpc = "rate"
    /\ LET elapsed == now - last_request_time
           woken == IF elapsed < MinInterval THEN now + (MinInterval - elapsed) ELSE now
       IN  /\ woken <= MaxTime
           /\ now' = woken
           /\ last_request_time' = woken
           /\ requests' = Append(requests, Request(call, woken))
    /\ kpc' = "request"
    /\ UNCHANGED <<config, cache, call, calls, returned, validatorVars, restVars>>

\* the request of the next page never takes up the cursor
NextCursor_Dropped(start_cursor, response) == start_cursor

\* lines 156-157 and 170: payload["start_cursor"] of the next request
NextCursor(start_cursor, response) ==
    IF response.next_cursor # "none" THEN response.next_cursor ELSE start_cursor

\* lines 156-196: the response to one request of the query loop and what
\* follows it
SearchRequest ==
    /\ kpc = "request"
    /\ call.op = "search_database"
    /\ \E response \in SearchResponses(call.sent + 1) :
         LET c == [call EXCEPT !.sent = @ + 1, !.pages = Append(@, response)]
         IN  IF response.status # "ok"
             THEN /\ calls' = Append(calls, Finished(c, "raised", FALSE, FALSE))
                  /\ returned' = RaiseNotionError(SearchError(response.status, c.target))
                  /\ call' = c
                  /\ kpc' = "idle"
                  /\ UNCHANGED cache
             ELSE LET results == c.results \o response.results
                  IN  IF response.has_more
                      THEN /\ call' = [c EXCEPT !.results = results,
                                                !.start_cursor =
                                                    NextCursor(@, response)]
                           /\ kpc' = "rate"
                           /\ UNCHANGED <<cache, calls, returned>>
                      ELSE \E outcome \in WriteOutcomes :
                             /\ cache' = SetCached(c.cache_key, results, outcome)
                             /\ call' = [c EXCEPT !.results = results]
                             /\ calls' = Append(calls, Finished(c, "returned", FALSE,
                                                config.cache_enabled /\ outcome = "written"))
                             /\ returned' = Return(results)
                             /\ kpc' = "idle"
    /\ UNCHANGED <<config, now, last_request_time, requests, validatorVars, restVars>>

\* get_page storing an empty result for the key when its request fails
PageRequest_StoresFailure ==
    /\ kpc = "request"
    /\ call.op = "get_page"
    /\ \E response \in PageResponses(call.target) :
         LET c == [call EXCEPT !.sent = @ + 1, !.pages = Append(@, response)]
         IN  /\ call' = c
             /\ IF response.status # "ok"
                THEN /\ calls' = Append(calls, Finished(c, "raised", FALSE, FALSE))
                     /\ returned' = RaiseNotionError(PageError(response.status, c.target))
                     /\ cache' = SetCached(c.cache_key, Empty, "written")
                ELSE \E outcome \in WriteOutcomes :
                       /\ cache' = SetCached(c.cache_key, response.result, outcome)
                       /\ calls' = Append(calls, Finished(c, "returned", FALSE,
                                          config.cache_enabled /\ outcome = "written"))
                       /\ returned' = Return(response.result)
    /\ kpc' = "idle"
    /\ UNCHANGED <<config, now, last_request_time, requests, validatorVars, restVars>>

\* lines 222-246: the response to the request of get_page and what follows it
PageRequest ==
    /\ kpc = "request"
    /\ call.op = "get_page"
    /\ \E response \in PageResponses(call.target) :
         LET c == [call EXCEPT !.sent = @ + 1, !.pages = Append(@, response)]
         IN  /\ call' = c
             /\ IF response.status # "ok"
                THEN /\ calls' = Append(calls, Finished(c, "raised", FALSE, FALSE))
                     /\ returned' = RaiseNotionError(PageError(response.status, c.target))
                     /\ UNCHANGED cache
                ELSE \E outcome \in WriteOutcomes :
                       /\ cache' = SetCached(c.cache_key, response.result, outcome)
                       /\ calls' = Append(calls, Finished(c, "returned", FALSE,
                                          config.cache_enabled /\ outcome = "written"))
                       /\ returned' = Return(response.result)
    /\ kpc' = "idle"
    /\ UNCHANGED <<config, now, last_request_time, requests, validatorVars, restVars>>

\* clear_cache that does not look at cache_enabled
Cleared_AlsoWhenDisabled(files) == [k \in DOMAIN files |-> NoFile]

\* lines 250-252: the cache directory after every *.json file is unlinked
Cleared(files) ==
    IF config.cache_enabled THEN [k \in DOMAIN files |-> NoFile] ELSE files

\* clear_cache, lines 248-252
ClearCache ==
    /\ kpc = "idle"
    /\ call.n < MaxCalls
    /\ LET c == Begin("clear_cache", Empty, "None", Empty)
       IN  /\ call' = c
           /\ calls' = Append(calls, Finished(c, "returned", FALSE, FALSE))
    /\ returned' = Return(Empty)
    /\ cache' = Cleared(cache)
    /\ UNCHANGED <<config, now, last_request_time, kpc, requests, validatorVars, restVars>>

\* time passes
Tick ==
    /\ kpc # "off"
    /\ now < MaxTime
    /\ now' = now + 1
    /\ UNCHANGED <<config, last_request_time, cache, kpc, call, requests, calls, returned,
                   validatorVars, restVars>>

ClientNext ==
    \/ ClientSearchDatabase
    \/ ClientGetPage
    \/ RateLimit
    \/ SearchRequest
    \/ PageRequest
    \/ ClearCache
    \/ Tick

\* the cache directory when empty, and with the file an earlier client with
\* caching enabled has left for a page
NoFiles == [k \in CacheKeys |-> NoFile]
EarlierFiles ==
    [NoFiles EXCEPT ![GetCacheKey(PageKeyData(PG1))] = File(JsonDump(<<"page", PG1>>), 0)]

\* the cache_ttl values the client is configured with, in clock intervals
CacheTtls == {1}

\* NotionClient(config) has been constructed (lines 26-40); a client with
\* caching enabled starts over an empty cache directory, one with caching
\* disabled over an empty one or one an earlier client has written to; the
\* clock reads well past the first interval
InitClient ==
    /\ config \in [cache_enabled : BOOLEAN, cache_ttl : CacheTtls]
    /\ now = MinInterval
    /\ last_request_time = 0
    /\ cache \in IF config.cache_enabled THEN {NoFiles} ELSE {NoFiles, EarlierFiles}
    /\ kpc = "idle"
    /\ RestIdle
    /\ call = NoCall
    /\ requests = Empty
    /\ calls = Empty
    /\ returned = NoReturn
    /\ manifest = Empty
    /\ parsed_symbols = Empty
    /\ close_matches = NoMatches
    /\ history = Empty
    /\ RegistryIdle
    /\ CoverageIdle
    /\ OrphansIdle

SpecClient == InitClient /\ [][ClientNext]_vars

(***************************************************************************)
(* Claims on the client's cache                                            *)
(***************************************************************************)
\* the cache file of a key exists, is no older than the TTL and holds a
\* whole JSON document
FreshReadable(k) ==
    /\ cache[k].kind = "file"
    /\ now - cache[k].mtime <= config.cache_ttl
    /\ cache[k].text[1] = "json"

\* the value such a file holds
Payload(k) == cache[k].text[2]

\* a step in which search_database or get_page is called
CallStarts == call'.n = call.n + 1 /\ call'.op \in {"search_database", "get_page"}

\* a call that finds a fresh readable entry returns its payload at once,
\* sends no request and leaves last_request_time alone
FreshEntryServed ==
    (CallStarts /\ config.cache_enabled /\ FreshReadable(call'.cache_key))
    => /\ returned' = Return(Payload(call'.cache_key))
       /\ kpc' = "idle"
       /\ Len(calls') = Len(calls) + 1
       /\ calls'[Len(calls')].from_cache
       /\ calls'[Len(calls')].outcome = "returned"
       /\ requests' = requests
       /\ last_request_time' = last_request_time
       /\ cache' = cache

\* the call after the i-th is the same call, begun within the TTL of the
\* i-th one's return, and the i-th one returned what the API answered
RepeatWithinTtl(i) ==
    /\ calls[i].op \in {"search_database", "get_page"}
    /\ calls[i].outcome = "returned"
    /\ ~calls[i].from_cache
    /\ calls[i + 1].op = calls[i].op
    /\ calls[i + 1].cache_key = calls[i].cache_key
    /\ calls[i + 1].started - calls[i].finished <= config.cache_ttl

\* the i-th call was answered from the cache, with no request
ServedFromCache(i) ==
    /\ calls[i].from_cache
    /\ calls[i].outcome = "returned"
    /\ calls[i].sent = 0
    /\ \A r \in 1..Len(requests) : requests[r].n # calls[i].n

\* C20 as stated: with caching enabled, a call that finds a fresh readable
\* entry for its key returns the cached payload without a request and without
\* touching last_request_time, and the repeat of a successful call within the
\* TTL is served from the cache.
C20_RepeatServedFromCache ==
    /\ [][FreshEntryServed]_vars
    /\ [](config.cache_enabled =>
            \A i \in 1..(Len(calls) - 1) : RepeatWithinTtl(i) => ServedFromCache(i + 1))

\* C20 as amended: the same, for the repeat of a successful call that wrote
\* its cache file (a write that fails is ignored by _set_cached and leaves no
\* entry to serve).
C20_RepeatServedWhenStored ==
    /\ [][FreshEntryServed]_vars
    /\ [](config.cache_enabled =>
            \A i \in 1..(Len(calls) - 1) :
                (RepeatWithinTtl(i) /\ calls[i].stored) => ServedFromCache(i + 1))

\* a paginated query answered by the API and stored, then repeated later
\* within the TTL and answered from the cache with the two pages' results
C20_Witness ==
    /\ config.cache_enabled
    /\ Len(calls) = 2
    /\ RepeatWithinTtl(1)
    /\ calls[1].op = "search_database"
    /\ calls[1].stored
    /\ calls[1].sent = 2
    /\ calls[2].started > calls[1].finished
    /\ ServedFromCache(2)
    /\ returned = Return(<<"r1", "r2">>)
    /\ Len(requests) = 2

(***************************************************************************)
(* Claims on the client's request pacing                                   *)
(***************************************************************************)
\* C21: on one client, every request goes out at least 1/rate_limit seconds
\* (MinInterval clock intervals) after the request before it, be it the next
\* page of the same query or the request of a later call, and the time
\* recorded in last_request_time is the time the latest request went out.
C21_RequestsPaced ==
    /\ \A i \in 1..(Len(requests) - 1) :
          requests[i + 1].at - requests[i].at >= MinInterval
    /\ requests # Empty => last_request_time = requests[Len(requests)].at

\* two pages of one query and the request of the next call, each sent right
\* after the sleep that follows the request before it
C21_Witness ==
    /\ Len(requests) = 3
    /\ requests[1].n = requests[2].n
    /\ requests[3].n # requests[2].n
    /\ requests[2].start_cursor = "c1"
    /\ requests[2].at = requests[1].at + MinInterval
    /\ requests[3].at = requests[2].at + MinInterval

\* the calls of search_database and get_page among the i-th to j-th finished
\* calls
ClientCalls(i, j) == {k \in i..j : calls[k].op \in {"search_database", "get_page"}}

\* C22 as stated: from the start of a client call to the end of a later one,
\* N calls of search_database or get_page take at least N - 1 intervals of
\* 1/rate_limit seconds.
C22_CallsPaced ==
    \A i \in 1..Len(calls), j \in 1..Len(calls) :
        (i <= j /\ {i, j} \subseteq ClientCalls(i, j))
        => calls[j].finished - calls[i].started
           >= (Cardinality(ClientCalls(i, j)) - 1) * MinInterval

\* C22 as amended: the same for N calls none of which is answered from the
\* cache (a call answered from the cache sends no request and is not paced).
C22_NetworkCallsPaced ==
    \A i \in 1..Len(calls), j \in 1..Len(calls) :
        (/\ i <= j
         /\ {i, j} \subseteq ClientCalls(i, j)
         /\ \A k \in ClientCalls(i, j) : ~calls[k].from_cache)
        => calls[j].finished - calls[i].started
           >= (Cardinality(ClientCalls(i, j)) - 1) * MinInterval

\* two calls that both went to the API, the second one's request delayed by
\* exactly one interval
C22_Witness ==
    /\ Len(calls) = 2
    /\ {1, 2} = ClientCalls(1, 2)
    /\ ~calls[1].from_cache
    /\ ~calls[2].from_cache
    /\ calls[1].op = "get_page"
    /\ calls[2].op = "search_database"
    /\ calls[2].finished - calls[1].started = MinInterval

(***************************************************************************)
(* Claims on pagination                                                    *)
(***************************************************************************)

\* the requests the call numbered n has sent, in the order sent
RequestsOf(n) == SelectSeq(requests, LAMBDA r : r.n = n)

RECURSIVE RowsOf(_)
\* the results of pages one after the other
RowsOf(pages) ==
    IF pages = Empty THEN Empty ELSE pages[1].results \o RowsOf(Tail(pages))

\* C23: in a search_database call the first request carries no cursor and
\* every later request carries the cursor of the response just before it,
\* which announced more pages; the call goes on to another request exactly
\* while the last response announces more pages, and when it returns it has
\* sent one request per page and returns the pages' results in request order.
C23_Pagination ==
    (call.op = "search_database" /\ RequestsOf(call.n) # Empty) =>
        LET reqs == RequestsOf(call.n)
            pages == call.pages
        IN  /\ Len(reqs) = (IF kpc = "request" THEN Len(pages) + 1 ELSE Len(pages))
            /\ reqs[1].start_cursor = "none"
            /\ \A m \in 2..Len(reqs) :
                  /\ pages[m - 1].status = "ok"
                  /\ pages[m - 1].has_more
                  /\ reqs[m].start_cursor = pages[m - 1].next_cursor
            /\ kpc = "rate" /\ pages # Empty => pages[Len(pages)].has_more
            /\ kpc = "idle" /\ returned.kind = "returned" =>
                  /\ ~pages[Len(pages)].has_more
                  /\ Len(reqs) = Len(pages)
                  /\ returned.value = RowsOf(pages)

\* a search that returned two pages, the second asked for with the cursor "c2"
\* of the first response
C23_Witness ==
    /\ kpc = "idle"
    /\ call.op = "search_database"
    /\ Len(call.pages) = 2
    /\ call.pages[1].next_cursor = "c2"
    /\ Len(RequestsOf(call.n)) = 2
    /\ RequestsOf(call.n)[2].start_cursor = "c2"
    /\ returned = Return(<<"r1", "r2">>)

(***************************************************************************)
(* Claims on the client's failures                                         *)
(***************************************************************************)

\* the sub-reason a caller reads off a NotionError: the phrase of its message
SubReason(message) ==
    IF message[1] \in {"Database not found", "Page not found"} THEN "NotFound"
    ELSE IF message[1] = "Notion API authentication failed" THEN "AuthFailed"
    ELSE IF message[1] = "Notion API rate limit exceeded" THEN "RateLimited"
    ELSE IF message[1] \in {"Request timeout querying database",
                            "Request timeout retrieving page"} THEN "Timeout"
    ELSE "RequestFailed"

\* the sub-reason of each way a request fails
ReasonOf(status) ==
    IF status = "404" THEN "NotFound"
    ELSE IF status = "401" THEN "AuthFailed"
    ELSE IF status = "429" THEN "RateLimited"
    ELSE IF status = "timeout" THEN "Timeout"
    ELSE "RequestFailed"

\* the response that ended the call
LastResponse == call.pages[Len(call.pages)]

\* C24: a search_database or get_page call whose request failed ends in a
\* NotionError, and the error's sub-reason is the one of the failure (404, 401,
\* 429, timeout, any other status each have their own), whichever of the two
\* operations was called.
C24_FailureTaxonomy ==
    (kpc = "idle" /\ call.op \in {"search_database", "get_page"}
       /\ call.pages # Empty /\ LastResponse.status # "ok")
    => /\ returned.kind = "raised"
       /\ SubReason(returned.value) = ReasonOf(LastResponse.status)

(***************************************************************************)
(* Claims on clear_cache                                                   *)
(***************************************************************************)

\* a call of clear_cache is made
ClearCacheCalled == call'.n = call.n + 1 /\ call'.op = "clear_cache"

\* C25: after clear_cache on a client with caching enabled no file is left in
\* the cache directory and a cache read of any key is a miss; on a client
\* with caching disabled clear_cache leaves the cache directory as it is.
C25_ClearCache ==
    [][ClearCacheCalled =>
          IF config.cache_enabled
          THEN /\ \A k \in CacheKeys : cache'[k] = NoFile
               /\ \A k \in CacheKeys : (GetCached(k).value = PyNone)'
          ELSE cache' = cache]_vars

\* clear_cache right after a call that wrote its cache entry
C25_Witness ==
    /\ config.cache_enabled
    /\ Len(calls) = 2
    /\ calls[1].stored
    /\ calls[2].op = "clear_cache"
    /\ calls[2].finished = calls[1].finished
    /\ cache[calls[1].cache_key] = NoFile

(***************************************************************************)
(* NotionRegistry.validate_id_format called on its own                     *)
(***************************************************************************)

\* the parts the id strings of the model are put together from
IdPrefixes == {T_BR, T_FEAT, T_V, T_RPC, <<"X", "X">>, <<"b", "r">>, Empty}
IdScopes == {<<"A">>, <<"A", "U", "T", "H">>, <<"a", "u", "t", "h">>, <<"A", "1">>, Empty}
IdNumbers ==
    {<<"0", "0", "1">>, <<"0", "1">>, <<"0", "0", "1", "1">>, <<"0", "0", "a">>,
     <<"0", "0", ArabicThree>>}
IdEnds == {Empty, <<"\n">>, <<"\n", "\n">>, <<" ">>}
Dashes == {<<"-">>, Empty}

\* the strings validate_id_format is called with
IdStrings ==
    {NODASH}
    \cup {p \o d1 \o s \o d2 \o n \o e :
            p \in IdPrefixes, d1 \in Dashes, s \in IdScopes, d2 \in Dashes,
            n \in IdNumbers, e \in IdEnds}

\* validate_id_format(fmt_id) is called and returns
ValidateFormat ==
    /\ fpc = "call"
    /\ id_valid' = ValidateIdFormat(fmt_id)
    /\ fpc' = "done"
    /\ UNCHANGED <<fmt_id, runs, validatorVars, clientVars>>

FormatNext == ValidateFormat

InitFormat ==
    /\ fmt_id \in IdStrings
    /\ fpc = "call"
    /\ id_valid = FALSE
    /\ runs = Empty
    /\ ClientIdle
    /\ manifest = Empty
    /\ parsed_symbols = Empty
    /\ close_matches = NoMatches
    /\ history = Empty
    /\ RegistryIdle
    /\ CoverageIdle
    /\ OrphansIdle

SpecIdFormat == InitFormat /\ [][FormatNext]_vars

\* s is TYPE-SCOPE-NNN: a registry type up to the first '-', a scope of one or
\* more letters A to Z, three digits 0 to 9, and nothing else
WellFormedId(s) ==
    LET k == FirstIndex(s, "-")
        n == Len(s)
    IN  /\ k > 0
        /\ SubSeq(s, 1, k - 1) \in REGISTRY_TYPES
        /\ n >= k + 5
        /\ \A i \in (k + 1)..(n - 4) : s[i] \in Upper
        /\ s[n - 3] = "-"
        /\ \A i \in (n - 2)..n : s[i] \in Digit

\* C26: validate_id_format returns true exactly for the ids whose text before
\* the first '-' is a registry type and that have the form TYPE-[A-Z]+-NNN.
C26_IdFormat ==
    fpc = "done" => (id_valid <=> WellFormedId(fmt_id))

(***************************************************************************)
(* Claims on cache reads                                                   *)
(***************************************************************************)

\* the call that starts finds a cache miss: it goes on to _rate_limit and the
\* request, nothing is returned yet
GoesToNetwork ==
    /\ kpc' = "rate"
    /\ calls' = calls
    /\ returned' = returned

\* C27: a call that finds a cache file for its key has one of three outcomes.
\* The file is no older than cache_ttl and readable: the call returns the
\* payload written and the file stays.  The file is older than cache_ttl: a
\* miss, the file is deleted.  The file is not readable: a miss, the file is
\* deleted.  After either miss the call goes to the network.
C27_CacheReadOutcomes ==
    [][(CallStarts /\ config.cache_enabled /\ cache[call'.cache_key].kind = "file") =>
          LET key == call'.cache_key
              file == cache[key]
          IN  IF now - file.mtime > config.cache_ttl
              THEN /\ cache' = [cache EXCEPT ![key] = NoFile]
                   /\ GoesToNetwork
              ELSE IF file.text = PartialText
              THEN /\ cache' = [cache EXCEPT ![key] = NoFile]
                   /\ GoesToNetwork
              ELSE /\ \E data \in {file.text[2]} :
                         /\ file.text = JsonDump(data)
                         /\ returned' = Return(data)
                   /\ cache' = cache
                   /\ kpc' = "idle"
                   /\ requests' = requests]_vars

\* a page stored by one call and read again when exactly cache_ttl old, from
\* the cache; the file is still there
C27_Witness ==
    /\ config.cache_enabled
    /\ Len(calls) = 2
    /\ calls[1].op = "get_page"
    /\ calls[1].stored
    /\ calls[2].cache_key = calls[1].cache_key
    /\ calls[2].started - calls[1].finished = config.cache_ttl
    /\ calls[2].from_cache
    /\ returned = Return(<<"page", PG1>>)
    /\ cache[calls[2].cache_key].kind = "file"

(***************************************************************************)
(* Two runs that share one cache directory.  Each run makes cache reads    *)
(* (_get_cached), cache writes (_set_cached) and clear_cache calls on the  *)
(* file of one key; a step is one file system call of lines 82-97, 113-114 *)
(* and 250-252, and the steps of the two runs interleave.  A handle opened *)
(* for writing stays with the file it was opened on: once the file is      *)
(* unlinked, what is written through the handle is no longer in the        *)
(* directory.                                                              *)
(***************************************************************************)
RunIds == {1, 2}
MaxOps == 2

\* the key both runs use, what run r stores under it
SharedKey == GetCacheKey(PageKeyData(PG1))
DataOf(r) == <<"page", PG1, r>>
\* a document made of parts of two runs' documents
Mixed == <<"mixed">>

IdleRun ==
    [pc |-> "idle", op |-> "none", ops |-> 0, out |-> "none", value |-> Empty,
     attached |-> FALSE, clean |-> FALSE]

\* what the variables other than cache, runs and now keep
sharedFrame ==
    <<validatorVars, formatVars, config, last_request_time, kpc, call, requests, calls,
      returned>>

\* run r's operation ends: a read returns None ("miss") or a value, or an
\* exception leaves the operation ("raised")
Ended(rs, r, out, value) ==
    [rs EXCEPT ![r] = [@ EXCEPT !.pc = "idle", !.out = out, !.value = value]]

At(rs, r, pc_) == [rs EXCEPT ![r] = [@ EXCEPT !.pc = pc_]]

\* the file is unlinked: no handle is on a file of the directory any more
Detached(rs) == [q \in RunIds |-> [rs[q] EXCEPT !.attached = FALSE]]

\* run r has written to the file: the other handles on it no longer write to
\* a file holding only their own output
Written(rs, r) ==
    [q \in RunIds |-> IF q # r /\ rs[q].attached THEN [rs[q] EXCEPT !.clean = FALSE]
                      ELSE rs[q]]

\* run r begins an operation
Started(r, op, pc_) ==
    [runs EXCEPT ![r] = [@ EXCEPT !.pc = pc_, !.op = op, !.ops = @ + 1,
                                  !.out = "none", !.value = Empty]]

\* _get_cached is called (lines 78-81)
ShStartRead(r) ==
    /\ runs[r].pc = "idle"
    /\ runs[r].ops < MaxOps
    /\ runs' = Started(r, "read", "exists")
    /\ UNCHANGED <<cache, now, sharedFrame>>

\* line 82: cache_path.exists()
ShExists(r) ==
    /\ runs[r].pc = "exists"
    /\ runs' = IF cache[SharedKey].kind = "none"
               THEN Ended(runs, r, "miss", Empty)
               ELSE At(runs, r, "stat")
    /\ UNCHANGED <<cache, now, sharedFrame>>

\* lines 86-87: cache_path.stat(), which raises FileNotFoundError when the
\* file is gone, and the comparison of the age with cache_ttl
ShStat(r) ==
    /\ runs[r].pc = "stat"
    /\ runs' = IF cache[SharedKey].kind = "none"
               THEN Ended(runs, r, "raised", Empty)
               ELSE IF now - cache[SharedKey].mtime > config.cache_ttl
               THEN At(runs, r, "expired")
               ELSE At(runs, r, "open")
    /\ UNCHANGED <<cache, now, sharedFrame>>

\* line 88: cache_path.unlink(), which raises FileNotFoundError when the file
\* is gone; line 89: return None
ShExpiredUnlink(r) ==
    /\ runs[r].pc = "expired"
    /\ IF cache[SharedKey].kind = "none"
       THEN /\ runs' = Ended(runs, r, "raised", Empty)
            /\ UNCHANGED cache
       ELSE /\ runs' = Ended(Detached(runs), r, "miss", Empty)
            /\ cache' = Unlink(cache, SharedKey)
    /\ UNCHANGED <<now, sharedFrame>>

\* lines 92-95: open and json.load; any exception leads to line 97
ShLoad(r) ==
    /\ runs[r].pc = "open"
    /\ runs' = IF cache[SharedKey].kind = "none"
               THEN At(runs, r, "corrupt")
               ELSE LET loaded == JsonLoad(cache[SharedKey].text)
                    IN  IF loaded.ok THEN Ended(runs, r, "value", loaded.data)
                        ELSE At(runs, r, "corrupt")
    /\ UNCHANGED <<cache, now, sharedFrame>>

\* line 97: cache_path.unlink() in the except block, raising alike; line 98
ShCorruptUnlink(r) ==
    /\ runs[r].pc = "corrupt"
    /\ IF cache[SharedKey].kind = "none"
       THEN /\ runs' = Ended(runs, r, "raised", Empty)
            /\ UNCHANGED cache
       ELSE /\ runs' = Ended(Detached(runs), r, "miss", Empty)
            /\ cache' = Unlink(cache, SharedKey)
    /\ UNCHANGED <<now, sharedFrame>>

\* _set_cached is called; line 113: open(cache_path, "w") creates the file or
\* truncates it
ShOpenWrite(r) ==
    /\ runs[r].pc = "idle"
    /\ runs[r].ops < MaxOps
    /\ cache' = [cache EXCEPT ![SharedKey] = File(Empty, now)]
    /\ runs' = [Written(Started(r, "write", "dump"), r)
                  EXCEPT ![r] = [@ EXCEPT !.attached = TRUE, !.clean = TRUE]]
    /\ UNCHANGED <<now, sharedFrame>>

\* line 114: json.dump has written a first part of the document
ShDumpPart(r) ==
    /\ runs[r].pc = "dump"
    /\ IF runs[r].attached
       THEN /\ cache' = [cache EXCEPT ![SharedKey] = File(PartialText, now)]
            /\ runs' = At(Written(runs, r), r, "close")
       ELSE /\ runs' = At(runs, r, "close")
            /\ UNCHANGED cache
    /\ UNCHANGED <<now, sharedFrame>>

\* line 114 and the end of the with block: the rest of the document is
\* written and the file closed.  Where another run has written to the same
\* file meanwhile the file holds this run's document, no document, or a
\* document made of both runs' output.
ShClose(r) ==
    /\ runs[r].pc \in {"dump", "close"}
    /\ IF runs[r].attached
       THEN \E text \in (IF runs[r].clean THEN {JsonDump(DataOf(r))}
                         ELSE {JsonDump(DataOf(r)), PartialText, JsonDump(Mixed)}) :
              /\ cache' = [cache EXCEPT ![SharedKey] = File(text, now)]
              /\ runs' = [Ended(Written(runs, r), r, "none", Empty)
                            EXCEPT ![r] = [@ EXCEPT !.attached = FALSE]]
       ELSE /\ runs' = Ended(runs, r, "none", Empty)
            /\ UNCHANGED cache
    /\ UNCHANGED <<now, sharedFrame>>

\* clear_cache is called; lines 250-251: the glob lists the files
ShClear(r) ==
    /\ runs[r].pc = "idle"
    /\ runs[r].ops < MaxOps
    /\ runs' = IF cache[SharedKey].kind = "none"
               THEN Ended(Started(r, "clear", "idle"), r, "none", Empty)
               ELSE Started(r, "clear", "clear")
    /\ UNCHANGED <<cache, now, sharedFrame>>

\* line 252: cache_file.unlink()
ShClearUnlink(r) ==
    /\ runs[r].pc = "clear"
    /\ IF cache[SharedKey].kind = "none"
       THEN /\ runs' = Ended(runs, r, "raised", Empty)
            /\ UNCHANGED cache
       ELSE /\ runs' = Ended(Detached(runs), r, "none", Empty)
            /\ cache' = Unlink(cache, SharedKey)
    /\ UNCHANGED <<now, sharedFrame>>

\* time passes
ShTick ==
    /\ now < MaxTime
    /\ now' = now + 1
    /\ UNCHANGED <<cache, runs, sharedFrame>>

SharedNext ==
    \/ \E r \in RunIds :
         \/ ShStartRead(r)
         \/ ShExists(r)
         \/ ShStat(r)
         \/ ShExpiredUnlink(r)
         \/ ShLoad(r)
         \/ ShCorruptUnlink(r)
         \/ ShOpenWrite(r)
         \/ ShDumpPart(r)
         \/ ShClose(r)
         \/ ShClear(r)
         \/ ShClearUnlink(r)
    \/ ShTick

\* two clients with caching enabled over one cache directory, empty or
\* holding the entry an earlier run has written in full
InitShared ==
    /\ config \in [cache_enabled : {TRUE}, cache_ttl : CacheTtls]
    /\ now = MinInterval
    /\ cache \in {NoFiles, EarlierFiles}
    /\ runs = [r \in RunIds |-> IdleRun]
    /\ last_request_time = 0
    /\ kpc = "off"
    /\ call = NoCall
    /\ requests = Empty
    /\ calls = Empty
    /\ returned = NoReturn
    /\ FormatIdle
    /\ manifest = Empty
    /\ parsed_symbols = Empty
    /\ close_matches = NoMatches
    /\ history = Empty
    /\ RegistryIdle
    /\ CoverageIdle
    /\ OrphansIdle

SpecShared == InitShared /\ [][SharedNext]_vars

\* the payloads a run has written in full
FullPayloads == {DataOf(r) : r \in RunIds} \cup {<<"page", PG1>>}

\* C28: when two runs sharing a cache directory interleave their cache reads,
\* writes and deletions on one key, every cache read ends as a miss or returns
\* a payload that some run wrote in full; no cache read raises or returns
\* anything else.
C28_SharedCacheReads ==
    \A r \in RunIds :
        (runs[r].op = "read" /\ runs[r].pc = "idle") =>
            \/ runs[r].out = "miss"
            \/ runs[r].out = "value" /\ runs[r].value \in FullPayloads

(***************************************************************************)
(* Claims on the bounds of a CoverageResult                                *)
(***************************************************************************)

\* C29: in every CoverageResult returned mapped_symbols is at most
\* total_symbols and coverage_percentage lies between 0 and 100, also when
\* the manifest maps symbols that the validator does not check.
C29_CoverageBounded ==
    CoverageReturned =>
        /\ cov_result.mapped_symbols <= cov_result.total_symbols
        /\ cov_result.coverage_percentage.den > 0
        /\ cov_result.coverage_percentage.num >= 0
        /\ cov_result.coverage_percentage.num <= 100 * cov_result.coverage_percentage.den

(***************************************************************************)
(* Claims on failed calls                                                  *)
(***************************************************************************)

\* a step that ends a call: with a NotionError, with a value
CallFails == Len(calls') = Len(calls) + 1 /\ calls'[Len(calls')].outcome = "raised"
CallReturns == Len(calls') = Len(calls) + 1 /\ calls'[Len(calls')].outcome = "returned"

\* C30: a search_database or get_page call whose request fails, on the first
\* or a later page, raises and returns nothing; from its cache miss to the
\* failure it leaves the cache directory as it is, with no entry for its key;
\* the same call made next goes to the network again.
C30_FailureLeavesCache ==
    /\ [][CallFails =>
            /\ returned'.kind = "raised"
            /\ cache' = cache
            /\ config.cache_enabled => cache'[call.cache_key] = NoFile]_vars
    /\ [][(kpc \in {"rate", "request"} /\ ~CallReturns) => cache' = cache]_vars
    /\ [](\A i \in 1..(Len(calls) - 1) :
            (/\ calls[i].outcome = "raised"
             /\ calls[i + 1].op = calls[i].op
             /\ calls[i + 1].cache_key = calls[i].cache_key)
            => ~calls[i + 1].from_cache /\ calls[i + 1].sent >= 1)

\* a query that failed on its second page, made again and sent to the API again
C30_Witness ==
    /\ config.cache_enabled
    /\ Len(calls) = 2
    /\ calls[1].op = "search_database"
    /\ calls[1].outcome = "raised"
    /\ calls[1].sent = 2
    /\ calls[2].op = "search_database"
    /\ calls[2].cache_key = calls[1].cache_key
    /\ ~calls[2].from_cache
    /\ calls[2].sent = 1
    /\ cache[calls[1].cache_key] = NoFile

====
